---- MODULE Spec2Model ----
(***************************************************************************)
(* A model of the Bad Apple player for STM32 (bad_apple_stm32): the A/V    *)
(* synchronizer (av_sync.c), the audio DAC driver and its DMA interrupts   *)
(* (audio_dac.c), the triple-buffered display pipeline (buffers.h,         *)
(* ssd1306.c) and the playback loop of main.c.                             *)
(*                                                                         *)
(* Execution model.  One foreground thread (main) and interrupt handlers.  *)
(* A handler runs to completion between two foreground steps; foreground   *)
(* code is cut into steps at every access to a variable an interrupt       *)
(* handler also touches, and a section bracketed by __disable_irq() /      *)
(* __enable_irq() is one step.                                             *)
(*                                                                         *)
(* Words.  The model checker's integers are 32 bits wide, so a uint32_t    *)
(* word w is held as the integer w when w < 2^31 and as w - 2^32 (its      *)
(* two's-complement image) otherwise: UINT32_MAX is held as -1.  Counters  *)
(* that only grow are capped by the bounds below and never come near 2^31. *)
(***************************************************************************)
EXTENDS Integers, Sequences, FiniteSets, TLC

VARIABLES
    sync,               \* g_avsync: AVSync_Handle
    sync_ret,           \* the last synchronizer API call and what it returned
    fault,              \* the CPU took a fault (integer divide-by-zero trap)
    audio,              \* g_audio: Audio_Handle
    dac_dma,            \* the DAC DMA: running, and the half it is reading
    s_dma_buffer,       \* what each half of s_dma_buffer_left/right holds
    g_display_buffers,  \* TripleBuffer_State
    g_framebuffer,      \* what each of the three framebuffer slots holds
    g_display,          \* g_display: SSD1306_Handle (dma_busy)
    i2c_dma,            \* the I2C DMA engine: a display transfer is in flight
    g_media,            \* g_media: MediaFile (header and playback position)
    pc,                 \* the foreground's position
    ret,                \* where the function the foreground is in returns to
    loc,                \* the foreground's local variables
    hist                \* history variables the properties read

syncVars == <<sync, sync_ret>>
audioVars == <<audio, dac_dma, s_dma_buffer>>
displayVars == <<g_display_buffers, g_framebuffer, g_display, i2c_dma>>
fgVars == <<g_media, pc, ret, loc>>
vars == <<syncVars, fault, audioVars, displayVars, fgVars, hist>>

-----------------------------------------------------------------------------
(* Program constants *)

AUDIO_HALF_BUFFER_SAMPLES == 2048
MAX_AUDIO_READ_SAMPLES == AUDIO_HALF_BUFFER_SAMPLES
DAC_SILENCE == 2048
MAX_MULTIBLOCK_COUNT == 16
SD_BLOCK_SIZE == 512
MEDIA_HEADER_SIZE == 20
MEDIA_FRAME_SIZE == 1024
MEDIA_DEFAULT_VOLUME == 50
\* 0x0FFFFFF8 and the mask 0x0FFFFFFF of a FAT32 entry
FAT_CLUSTER_END == 268435448
FAT_MAX_FILENAME == 11
FAT_ATTR_LONG_NAME == 15
FAT_ENTRY_MASK == 268435455
AVSYNC_DEFAULT_MAX_DRIFT == 2
VIDEO_FPS == 30
FRAMEBUFFER_COUNT == 3

\* 0xFFFFFFFF as held by the model (see "Words" above)
UINT32_MAX == 0 - 1

(* Bounds of the model *)

\* the synchronizer's audio_samples_played is capped here in SpecSync
MaxSamplesPlayed == 6
\* video_frames_rendered is capped here in SpecSync
MaxVideoFrames == 3
\* frames_rendered is capped here in SpecDisplay
MaxFramesRendered == 4
\* the DAC half-buffer interrupts of a run
MaxAudioInterrupts == 3

-----------------------------------------------------------------------------
(* 32-bit arithmetic on held words *)

\* (int32_t)w: the held integer of a word is its int32 value
Int32(w) == w

\* a > b on uint32_t
U32Gt(a, b) ==
    \/ a >= 0 /\ b >= 0 /\ a > b
    \/ a < 0 /\ b >= 0
    \/ a < 0 /\ b < 0 /\ a > b

-----------------------------------------------------------------------------
(* av_sync.c *)

AVSyncStats0 == [frames_skipped |-> 0, frames_repeated |-> 0,
                 max_drift |-> 0, min_drift |-> 0]

\* memset(sync, 0, sizeof(AVSync_Handle)); also the handle's static storage
AVSyncZero ==
    [audio_sample_rate |-> 0, video_fps |-> 0, samples_per_frame |-> 0,
     max_drift_frames |-> 0, state |-> "RESET", audio_samples_played |-> 0,
     video_frames_rendered |-> 0, stats |-> AVSyncStats0, initialized |-> FALSE]

\* mutant: the default of max_drift_frames left out
AVSync_Init_NoDefault(h, sample_rate, video_fps, max_drift) ==
    IF sample_rate = 0 \/ video_fps = 0 THEN h
    ELSE [AVSyncZero EXCEPT
            !.audio_sample_rate = sample_rate,
            !.video_fps = video_fps,
            !.samples_per_frame = sample_rate \div video_fps,
            !.max_drift_frames = max_drift,
            !.state = "READY",
            !.initialized = TRUE]

AVSync_Init(h, sample_rate, video_fps, max_drift) ==
    IF sample_rate = 0 \/ video_fps = 0 THEN h
    ELSE [AVSyncZero EXCEPT
            !.audio_sample_rate = sample_rate,
            !.video_fps = video_fps,
            !.samples_per_frame = sample_rate \div video_fps,
            !.max_drift_frames = IF U32Gt(max_drift, 0) THEN max_drift
                                 ELSE AVSYNC_DEFAULT_MAX_DRIFT,
            !.state = "READY",
            !.initialized = TRUE]

AVSync_Start(h) ==
    IF ~h.initialized THEN h
    ELSE [h EXCEPT !.audio_samples_played = 0,
                   !.video_frames_rendered = 0,
                   !.stats = AVSyncStats0,
                   !.state = "RUNNING"]

AVSync_Stop(h) == [h EXCEPT !.state = "STOPPED"]

\* mutant: the check of the state left out
AVSync_AudioTick_Unguarded(h, samples) ==
    [h EXCEPT !.audio_samples_played = h.audio_samples_played + samples]

\* mutant: "=" for "+="
AVSync_AudioTick_Assign(h, samples) ==
    IF h.state # "RUNNING" THEN h
    ELSE [h EXCEPT !.audio_samples_played = samples]

AVSync_AudioTick(h, samples) ==
    IF h.state # "RUNNING" THEN h
    ELSE [h EXCEPT !.audio_samples_played = h.audio_samples_played + samples]

\* drift = (int32_t)video_frame - (int32_t)audio_frame
AVSync_Drift(h, audio_frame) ==
    Int32(h.video_frames_rendered) - Int32(audio_frame)

\* mutant: min_drift is not updated
AVSync_DriftStats_MaxOnly(st, drift) ==
    [st EXCEPT !.max_drift = IF drift > st.max_drift THEN drift ELSE st.max_drift]

\* the stats update of AVSync_GetFrameDecision
AVSync_DriftStats(st, drift) ==
    [st EXCEPT !.max_drift = IF drift > st.max_drift THEN drift ELSE st.max_drift,
               !.min_drift = IF drift < st.min_drift THEN drift ELSE st.min_drift]

\* mutant: the band's lower edge excluded ("<=" for "<")
AVSync_Decide_ExclusiveBand(h, drift) ==
    IF drift <= -Int32(h.max_drift_frames) THEN "SKIP_FRAME"
    ELSE IF drift > Int32(h.max_drift_frames) THEN "REPEAT_FRAME"
    ELSE "RENDER_FRAME"

\* the decision of AVSync_GetFrameDecision for a computed drift
AVSync_Decide(h, drift) ==
    IF drift < -Int32(h.max_drift_frames) THEN "SKIP_FRAME"
    ELSE IF drift > Int32(h.max_drift_frames) THEN "REPEAT_FRAME"
    ELSE "RENDER_FRAME"

AVSync_FrameRendered(h) ==
    [h EXCEPT !.video_frames_rendered = h.video_frames_rendered + 1]

AVSync_FrameSkipped(h) ==
    [h EXCEPT !.video_frames_rendered = h.video_frames_rendered + 1,
              !.stats.frames_skipped = h.stats.frames_skipped + 1]

AVSync_GetCurrentFrame(h) ==
    IF h.samples_per_frame = 0 THEN 0
    ELSE h.audio_samples_played \div h.samples_per_frame

-----------------------------------------------------------------------------
(* buffers.h, buffers.c: the triple buffer *)

\* g_display_buffers' static initializer, and what Buffers_Init assigns
TripleBuffer0 ==
    [render |-> 0, ready |-> 2, transfer |-> 1, transfer_busy |-> FALSE,
     frames_rendered |-> 0, frames_transferred |-> 0]

Slots == 0 .. (FRAMEBUFFER_COUNT - 1)

\* A slot's content: seq numbers the drawings (0: cleared by Buffers_Init, k: the
\* k-th frame drawn); whole is FALSE while the foreground is in the middle of
\* writing it; blank is TRUE for the all-zero frame (memset).
Framebuffer0 == [s \in Slots |-> [seq |-> 0, whole |-> TRUE, blank |-> TRUE]]

Display_GetRenderBuffer(b) == b.render

\* mutant: render swapped with transfer instead of ready
Display_SwapBuffers_WithTransfer(b) ==
    [b EXCEPT !.transfer = b.render,
              !.render = b.transfer,
              !.frames_rendered = b.frames_rendered + 1]

\* the section of Display_SwapBuffers between __disable_irq and __enable_irq
Display_SwapBuffers(b) ==
    [b EXCEPT !.ready = b.render,
              !.render = b.ready,
              !.frames_rendered = b.frames_rendered + 1]

\* mutant: ">=" for ">"
Display_HasFrame_OrEqual(b) == b.frames_rendered >= b.frames_transferred

Display_HasFrame(b) == b.frames_rendered > b.frames_transferred

Display_GetTransferBuffer(b) == b.transfer

\* mutant: old_transfer is not stored back into ready
Display_StartTransfer_Swap_LostReady(b) ==
    [b EXCEPT !.transfer = b.ready,
              !.transfer_busy = TRUE]

\* the section of Display_StartTransfer between __disable_irq and __enable_irq
Display_StartTransfer_Swap(b) ==
    [b EXCEPT !.transfer = b.ready,
              !.ready = b.transfer,
              !.transfer_busy = TRUE]

\* mutant: the transfer is counted but transfer_busy stays set
Display_TransferComplete_StillBusy(b) ==
    [b EXCEPT !.frames_transferred = b.frames_transferred + 1]

Display_TransferComplete(b) ==
    [b EXCEPT !.transfer_busy = FALSE,
              !.frames_transferred = b.frames_transferred + 1]

(* audio_dac.h, audio_dac.c: the audio driver *)

AudioStats0 == [samples_played |-> 0, refill_count |-> 0, underrun_count |-> 0]

\* g_audio in static storage (all zero); avsync is TRUE when a synchronizer is
\* attached
AudioZero ==
    [avsync |-> FALSE, needs_refill |-> FALSE, fill_half |-> "FIRST",
     state |-> "RESET", stats |-> AudioStats0, initialized |-> FALSE]

\* the DAC DMA stopped
DacDma0 == [running |-> FALSE, playing |-> "FIRST"]

\* what one half of s_dma_buffer_left and s_dma_buffer_right holds: zeros,
\* DAC_SILENCE in every sample, or ("samples") the converted samples
\* [from, from + to_read) of the file's audio stream followed by DAC_SILENCE
HalfBuffer(src, from, to_read) ==
    [src |-> src,
     from |-> IF src = "samples" THEN from ELSE 0,
     to_read |-> IF src = "samples" THEN to_read ELSE 0]

\* zero-initialized static arrays
DmaBuffer0 == [h \in {"FIRST", "SECOND"} |-> HalfBuffer("zero", 0, 0)]

\* the record of the halves the DAC DMA has played, kept where on is set:
\* halves, what each half held when the DMA had read it to its end; late, an
\* audio interrupt came before the refill asked for by the one before had
\* called audio_BufferFilled; failed, a block read of a prefill or refill failed
PlayLog0 == [on |-> FALSE, halves |-> <<>>, late |-> FALSE, failed |-> FALSE]

PlayLog_Interrupt(log, a, buffer, playing) ==
    IF log.on
    THEN [log EXCEPT !.halves = Append(@, buffer[playing]),
                     !.late = @ \/ a.needs_refill]
    ELSE log

PlayLog_Read(log, read_ok) ==
    IF log.on /\ ~read_ok THEN [log EXCEPT !.failed = TRUE] ELSE log

audio_Init(a) ==
    [AudioZero EXCEPT !.state = "READY", !.initialized = TRUE]

audio_SetAVSync(a) == [a EXCEPT !.avsync = TRUE]

audio_Start(a) == IF a.initialized THEN [a EXCEPT !.state = "PLAYING"] ELSE a

audio_Stop(a) == [a EXCEPT !.state = "READY"]

audio_NeedsRefill(a) == a.needs_refill

audio_GetFillHalf(a) == a.fill_half

\* mutant: the refill is not counted
audio_BufferFilled_Uncounted(a) == [a EXCEPT !.needs_refill = FALSE]

audio_BufferFilled(a) ==
    [a EXCEPT !.needs_refill = FALSE,
              !.stats.refill_count = a.stats.refill_count + 1]

\* mutant: the half that is about to play is offered for filling
audio_HandleDMA_OtherHalf(a, is_half_transfer) ==
    IF ~a.initialized THEN a
    ELSE [a EXCEPT !.fill_half = IF is_half_transfer THEN "SECOND" ELSE "FIRST",
                   !.needs_refill = TRUE,
                   !.stats.samples_played =
                        a.stats.samples_played + AUDIO_HALF_BUFFER_SAMPLES]

\* audio_HandleDMA, its effect on the Audio_Handle
audio_HandleDMA(a, is_half_transfer) ==
    IF ~a.initialized THEN a
    ELSE [a EXCEPT !.fill_half = IF is_half_transfer THEN "FIRST" ELSE "SECOND",
                   !.needs_refill = TRUE,
                   !.stats.samples_played =
                        a.stats.samples_played + AUDIO_HALF_BUFFER_SAMPLES]

\* mutant: the whole circular buffer is accounted to the synchronizer
audio_HandleDMA_Sync_FullBuffer(a, h) ==
    IF a.initialized /\ a.avsync
    THEN AVSync_AudioTick(h, 2 * AUDIO_HALF_BUFFER_SAMPLES)
    ELSE h

\* audio_HandleDMA, its effect on the attached synchronizer
audio_HandleDMA_Sync(a, h) ==
    IF a.initialized /\ a.avsync
    THEN AVSync_AudioTick(h, AUDIO_HALF_BUFFER_SAMPLES)
    ELSE h

(* sd_card.c: the SD handle's DMA flags.  dma_busy and dma_error are the      *)
(* volatile fields of SD_Handle that the SPI DMA callbacks write               *)

\* SD_Handle in static storage
SdZero == [initialized |-> FALSE, dma_busy |-> FALSE, dma_error |-> FALSE]

SD_DMA_RxComplete(hsd) == [hsd EXCEPT !.dma_busy = FALSE]

\* mutant: the error is not recorded
SD_DMA_Error_Unrecorded(hsd) == [hsd EXCEPT !.dma_busy = FALSE]

SD_DMA_Error(hsd) == [hsd EXCEPT !.dma_busy = FALSE, !.dma_error = TRUE]

(* fatfs.h, fatfs.c: the FAT32 layer.  A volume is a record: sectors_per_cluster,*)
(* data_start_sector, root_cluster, fat (the FAT32 entry of every cluster, the  *)
(* reserved bits masked off) and dir (the root directory's entries by cluster   *)
(* and sector).  A block read is one call of SD_ReadBlock or                    *)
(* SD_ReadMultipleBlocks; io = [n, fail_at] counts the reads a call has issued, *)
(* and the read number fail_at fails (0: none does).                            *)

Io0(fail_at) == [n |-> 0, fail_at |-> fail_at, log |-> <<>>]
ReadOk(io) == io.n + 1 # io.fail_at
AfterRead(io) == [io EXCEPT !.n = @ + 1]
\* a call whose sector and block count are kept in io.log
AfterReadOf(io, sector, count) ==
    [io EXCEPT !.n = @ + 1, !.log = Append(@, <<sector, count>>)]

FAT_IsEndOfChain(cluster) == cluster < 2 \/ cluster >= FAT_CLUSTER_END

FAT_GetClusterSize(vol) == vol.sectors_per_cluster * SD_BLOCK_SIZE

FAT_ClusterToSector(vol, cluster) ==
    IF cluster < 2 THEN 0
    ELSE vol.data_start_sector + (cluster - 2) * vol.sectors_per_cluster

\* FAT_GetNextCluster: the value it returns; it reads one FAT sector unless
\* cluster < 2, and returns 0 when that read fails
FAT_GetNextCluster(vol, cluster, io) ==
    IF cluster < 2 THEN 0
    ELSE IF ~ReadOk(io) THEN 0
    ELSE IF cluster \in DOMAIN vol.fat THEN vol.fat[cluster] ELSE 0

\* the counter of block reads after FAT_GetNextCluster
FAT_GetNextCluster_Io(cluster, io) == IF cluster < 2 THEN io ELSE AfterRead(io)

(* media_file_reader.c: the header fields and the audio position *)

\* a FAT_Volume that was never mounted; hsd stands for the card's content: the
\* media header in the file's first sector (header_sector) and the file's
\* cluster chain (chain), which the FAT encodes
VolumeZero ==
    [mounted |-> FALSE, sectors_per_cluster |-> 0, data_start_sector |-> 0,
     root_cluster |-> 0, fat |-> <<>>, dir |-> <<>>,
     hsd |-> [header_sector |-> 0, frame_count |-> 0, audio_size |-> 0,
              sample_rate |-> 0, chain |-> <<>>]]

MediaZero ==
    [is_open |-> FALSE, frame_count |-> 0, audio_size |-> 0, sample_rate |-> 0,
     current_sample |-> 0,
     vol |-> VolumeZero, first_cluster |-> 0, file_size |-> 0,
     video_offset |-> 0, audio_offset |-> 0, volume_percent |-> 0,
     cached_cluster |-> 0, cached_cluster_index |-> 0,
     is_contiguous |-> FALSE, first_sector |-> 0]

(* Memory that a read fills is a sequence of extents <<addr, len>>: len bytes   *)
(* that came from the card's byte address addr = sector * 512 + offset, so that *)
(* two buffers hold the same bytes iff their extents are equal.  addr = -1 is   *)
(* memory the call did not write.                                               *)
Untouched == 0 - 1

AddExtent(buf, addr, len) ==
    IF len = 0 THEN buf
    ELSE IF /\ buf # <<>>
            /\ addr # Untouched
            /\ buf[Len(buf)][1] # Untouched
            /\ buf[Len(buf)][1] + buf[Len(buf)][2] = addr
         THEN [buf EXCEPT ![Len(buf)] = <<@[1], @[2] + len>>]
         ELSE Append(buf, <<addr, len>>)

RECURSIVE ExtentBytes(_)
ExtentBytes(buf) ==
    IF buf = <<>> THEN 0 ELSE buf[1][2] + ExtentBytes(Tail(buf))

\* the buffer of size bytes after a read wrote buf at its start
Filled(buf, size) == AddExtent(buf, Untouched, size - ExtentBytes(buf))

RECURSIVE Concat(_, _)
Concat(a, b) ==
    IF b = <<>> THEN a ELSE Concat(AddExtent(a, b[1][1], b[1][2]), Tail(b))

Min(a, b) == IF a < b THEN a ELSE b

\* Media_GetClusterAt's for loop: walk the chain from index i to target
RECURSIVE Media_WalkChain(_, _, _, _, _)
Media_WalkChain(vol, cluster, i, target, io) ==
    IF i < target /\ ~FAT_IsEndOfChain(cluster)
    THEN Media_WalkChain(vol, FAT_GetNextCluster(vol, cluster, io), i + 1, target,
                         FAT_GetNextCluster_Io(cluster, io))
    ELSE [cluster |-> cluster, io |-> io]

Media_GetClusterAt_IndexNotKept(m, byte_offset, io) ==
    LET cluster_size == FAT_GetClusterSize(m.vol)
        target_index == byte_offset \div cluster_size
        cached == m.cached_cluster # 0 /\ m.cached_cluster_index <= target_index
        w == Media_WalkChain(m.vol,
                             IF cached THEN m.cached_cluster ELSE m.first_cluster,
                             IF cached THEN m.cached_cluster_index ELSE 0,
                             target_index, io)
    IN  IF cluster_size = 0 THEN [cluster |-> 0, m |-> m, io |-> io]
        ELSE [cluster |-> w.cluster,
              m |-> [m EXCEPT !.cached_cluster = w.cluster],
              io |-> w.io]
Media_GetClusterAt_StaleCache(m, byte_offset, io) ==
    LET cluster_size == FAT_GetClusterSize(m.vol)
        target_index == byte_offset \div cluster_size
        cached == m.cached_cluster # 0
        w == Media_WalkChain(m.vol,
                             IF cached THEN m.cached_cluster ELSE m.first_cluster,
                             IF cached THEN m.cached_cluster_index ELSE 0,
                             target_index, io)
    IN  IF cluster_size = 0 THEN [cluster |-> 0, m |-> m, io |-> io]
        ELSE [cluster |-> w.cluster,
              m |-> [m EXCEPT !.cached_cluster = w.cluster,
                              !.cached_cluster_index = target_index],
              io |-> w.io]
Media_GetClusterAt(m, byte_offset, io) ==
    LET cluster_size == FAT_GetClusterSize(m.vol)
        target_index == byte_offset \div cluster_size
        cached == m.cached_cluster # 0 /\ m.cached_cluster_index <= target_index
        w == Media_WalkChain(m.vol,
                             IF cached THEN m.cached_cluster ELSE m.first_cluster,
                             IF cached THEN m.cached_cluster_index ELSE 0,
                             target_index, io)
    IN  IF cluster_size = 0 THEN [cluster |-> 0, m |-> m, io |-> io]
        ELSE [cluster |-> w.cluster,
              m |-> [m EXCEPT !.cached_cluster = w.cluster,
                              !.cached_cluster_index = target_index],
              io |-> w.io]

\* Media_ReadAtFragmented: one pass of the while loop, buf being what the loop
\* has written so far; status "again" when the loop goes on
Media_ReadAtFragmented_Iteration(m, offset, size, buf, io) ==
    LET cluster_size == FAT_GetClusterSize(m.vol)
        g == Media_GetClusterAt(m, offset, io)
        offset_in_cluster == offset % cluster_size
        sector == FAT_ClusterToSector(m.vol, g.cluster)
                      + offset_in_cluster \div SD_BLOCK_SIZE
        sector_offset == offset_in_cluster % SD_BLOCK_SIZE
        available == SD_BLOCK_SIZE - sector_offset
        to_copy == Min(Min(size, available), m.file_size - offset)
        Out(status, b2, m2, io2, n) ==
            [status |-> status, buf |-> b2, m |-> m2, io |-> io2,
             offset |-> offset + n, size |-> size - n]
    IN  IF cluster_size = 0 THEN Out("FAT_ERROR", buf, m, io, 0)
        ELSE IF ~(size > 0 /\ offset < m.file_size)
        THEN Out("FAT_OK", buf, m, io, 0)
        ELSE IF FAT_IsEndOfChain(g.cluster) THEN Out("FAT_OK", buf, g.m, g.io, 0)
        ELSE IF ~ReadOk(g.io)
        THEN Out("FAT_ERROR_READ", buf, g.m, AfterReadOf(g.io, sector, 1), 0)
        ELSE Out("again",
                 AddExtent(buf, sector * SD_BLOCK_SIZE + sector_offset, to_copy),
                 g.m, AfterReadOf(g.io, sector, 1), to_copy)

\* Media_ReadAtFragmented: the loop
RECURSIVE Media_ReadAtFragmented(_, _, _, _, _)
Media_ReadAtFragmented(m, offset, size, buf, io) ==
    CHOOSE r \in
        { IF i.status # "again"
          THEN [status |-> i.status, buf |-> i.buf, m |-> i.m, io |-> i.io]
          ELSE IF i.offset = offset
          THEN [status |-> "HANG", buf |-> i.buf, m |-> i.m, io |-> i.io]
          ELSE Media_ReadAtFragmented(i.m, i.offset, i.size, i.buf, i.io) :
          i \in {Media_ReadAtFragmented_Iteration(m, offset, size, buf, io)} } :
        TRUE

\* Media_ReadAtContiguous: one pass of the while loop
\* the cap of 16 blocks left out
Media_MultiblockCount_Uncapped(sectors_needed, sectors_available) ==
    Min(sectors_needed, sectors_available)

\* the blocks of one aligned read (media_file_reader.c:138-139)
Media_MultiblockCount(sectors_needed, sectors_available) ==
    Min(Min(sectors_needed, sectors_available), MAX_MULTIBLOCK_COUNT)

Media_ReadAtContiguous_Iteration(m, offset, size, buf, io) ==
    LET sector == m.first_sector + offset \div SD_BLOCK_SIZE
        sector_offset == offset % SD_BLOCK_SIZE
        available == SD_BLOCK_SIZE - sector_offset
        to_copy == Min(Min(size, available), m.file_size - offset)
        sectors_available == (m.file_size - offset) \div SD_BLOCK_SIZE
        sectors_needed == size \div SD_BLOCK_SIZE
        count == Media_MultiblockCount(sectors_needed, sectors_available)
        bytes_read == count * SD_BLOCK_SIZE
        scratch == sector_offset # 0 \/ size < SD_BLOCK_SIZE
        blocks == IF scratch \/ count <= 1 THEN 1 ELSE count
        Out(status, b2, io2, n) ==
            [status |-> status, buf |-> b2, m |-> m, io |-> io2,
             offset |-> offset + n, size |-> size - n]
    IN  IF ~(size > 0 /\ offset < m.file_size) THEN Out("FAT_OK", buf, io, 0)
        ELSE IF ~ReadOk(io)
        THEN Out("FAT_ERROR_READ", buf, AfterReadOf(io, sector, blocks), 0)
        ELSE IF scratch
        THEN Out("again",
                 AddExtent(buf, sector * SD_BLOCK_SIZE + sector_offset, to_copy),
                 AfterReadOf(io, sector, 1), to_copy)
        ELSE Out("again", AddExtent(buf, sector * SD_BLOCK_SIZE, bytes_read),
                 AfterReadOf(io, sector, blocks), bytes_read)

\* Media_ReadAtContiguous: the loop.  A pass that advances by 0 bytes (the
\* aligned branch with count = 0: less than a sector of the file is left, a
\* sector or more is asked for) repeats for ever: status "HANG"
RECURSIVE Media_ReadAtContiguous(_, _, _, _, _)
Media_ReadAtContiguous(m, offset, size, buf, io) ==
    CHOOSE r \in
        { IF i.status # "again"
          THEN [status |-> i.status, buf |-> i.buf, m |-> i.m, io |-> i.io]
          ELSE IF i.offset = offset
          THEN [status |-> "HANG", buf |-> i.buf, m |-> i.m, io |-> i.io]
          ELSE Media_ReadAtContiguous(i.m, i.offset, i.size, i.buf, i.io) :
          i \in {Media_ReadAtContiguous_Iteration(m, offset, size, buf, io)} } :
        TRUE

Media_ReadAt(m, offset, size, io) ==
    IF ~m.is_open
    THEN [status |-> "FAT_ERROR_INVALID_PARAM", buf |-> <<>>, m |-> m, io |-> io]
    ELSE IF m.is_contiguous /\ m.first_sector # 0
    THEN Media_ReadAtContiguous(m, offset, size, <<>>, io)
    ELSE Media_ReadAtFragmented(m, offset, size, <<>>, io)


\* a boot signature: bytes 510 and 511 of a sector
BootSignature == <<85, 170>>

\* mutant: the volume marked mounted before the parameters are validated
FAT_Mount_Validated_Always(boot) == TRUE

\* FAT_Mount: the validation of the BIOS parameter block (buffers.c:111-121)
FAT_Mount_Validated(boot) ==
    /\ boot.bytes_per_sector = SD_BLOCK_SIZE
    /\ boot.sectors_per_cluster # 0
    /\ boot.num_fats # 0

\* FAT_Mount(vol, hsd) on the card behind hsd: card.initialized is
\* hsd->initialized, card.mbr_signature the last two bytes of sector 0,
\* card.partition_lba the partition start in it, card.boot the boot sector at
\* that address, card.content the FAT, the root directory and the file
FAT_Mount(vol, card, io) ==
    LET cleared == [VolumeZero EXCEPT !.fat = card.content.fat,
                                      !.dir = card.content.dir,
                                      !.hsd = card.content.hsd]
        io1 == AfterRead(io)
        io2 == AfterRead(io1)
        parsed == [cleared EXCEPT
                      !.sectors_per_cluster = card.boot.sectors_per_cluster,
                      !.root_cluster = card.boot.root_cluster]
        R(status, v, io3) == [status |-> status, vol |-> v, io |-> io3]
    IN  IF ~card.initialized THEN R("FAT_ERROR_INVALID_PARAM", vol, io)
        ELSE IF ~ReadOk(io) THEN R("FAT_ERROR_READ", cleared, io1)
        ELSE IF card.mbr_signature # BootSignature THEN R("FAT_ERROR", cleared, io1)
        ELSE IF ~ReadOk(io1) THEN R("FAT_ERROR_READ", cleared, io2)
        ELSE IF card.boot.signature # BootSignature THEN R("FAT_ERROR", cleared, io2)
        ELSE IF ~FAT_Mount_Validated(card.boot) THEN R("FAT_ERROR", parsed, io2)
        ELSE R("FAT_OK",
               [parsed EXCEPT
                   !.data_start_sector =
                       card.partition_lba + card.boot.reserved_sectors
                           + card.boot.num_fats * card.boot.sectors_per_fat,
                   !.mounted = TRUE],
               io2)

\* FAT_Read16, FAT_Read32: the little-endian value at buf[offset]; a buffer is
\* the sequence of its bytes, buf[0] first.  The bytes are 0 .. 255, so that
\* no shift loses a bit; the directories of the model keep the top bit of a
\* 32-bit field clear
FAT_Read16(buf, offset) ==
    buf[offset + 1] + buf[offset + 2] * 256
FAT_Read32(buf, offset) ==
    buf[offset + 1] + buf[offset + 2] * 256 + buf[offset + 3] * 65536
        + buf[offset + 4] * 16777216

\* fat_name: the 11 bytes FAT_ConvertFilename leaves for the "BADAPPLE.BIN" of
\* main.c:250, 'B' 'A' 'D' 'A' 'P' 'P' 'L' 'E' 'B' 'I' 'N'
FatName == <<66, 65, 68, 65, 80, 80, 76, 69, 66, 73, 78>>

\* the long-name test taken only of an attribute byte that is 0x0F
FAT_FindFile_Entry_LongNameExact(entry) ==
    IF entry[1] = 0 THEN [kind |-> "end"]
    ELSE IF entry[1] = 229 THEN [kind |-> "skip"]
    ELSE IF entry[12] = FAT_ATTR_LONG_NAME THEN [kind |-> "skip"]
    ELSE IF SubSeq(entry, 1, FAT_MAX_FILENAME) = FatName
    THEN [kind |-> "found",
          first_cluster |-> FAT_Read16(entry, 20) * 65536 + FAT_Read16(entry, 26),
          size |-> FAT_Read32(entry, 28)]
    ELSE [kind |-> "skip"]
\* FAT_FindFile, lines 183-211: what the loop body does with one 32-byte
\* directory entry (entry[k + 1] is the byte at offset k).  x & 0x0F is
\* x % 16, and (hi << 16) | lo is hi * 65536 + lo for two 16-bit values
FAT_FindFile_Entry(entry) ==
    IF entry[1] = 0 THEN [kind |-> "end"]
    ELSE IF entry[1] = 229 THEN [kind |-> "skip"]
    ELSE IF entry[12] % (FAT_ATTR_LONG_NAME + 1) = FAT_ATTR_LONG_NAME
    THEN [kind |-> "skip"]
    ELSE IF SubSeq(entry, 1, FAT_MAX_FILENAME) = FatName
    THEN [kind |-> "found",
          first_cluster |-> FAT_Read16(entry, 20) * 65536 + FAT_Read16(entry, 26),
          size |-> FAT_Read32(entry, 28)]
    ELSE [kind |-> "skip"]

\* FAT_FindFile: the 16 entries of one directory sector, from entry e on
RECURSIVE FAT_FindFile_Sector(_, _)
FAT_FindFile_Sector(entries, e) ==
    IF e > Len(entries) THEN [kind |-> "none"]
    ELSE IF FAT_FindFile_Entry(entries[e]).kind = "skip"
    THEN FAT_FindFile_Sector(entries, e + 1)
    ELSE FAT_FindFile_Entry(entries[e])

\* FAT_FindFile: the walk of the root directory from sector s of cluster
RECURSIVE FAT_FindFile_Walk(_, _, _, _, _)
FAT_FindFile_Walk(vol, cluster, s, info, io) ==
    LET r == FAT_FindFile_Sector(vol.dir[cluster][s + 1], 1)
    IN  IF FAT_IsEndOfChain(cluster)
        THEN [status |-> "FAT_ERROR_NOT_FOUND", info |-> info, io |-> io]
        ELSE IF s >= vol.sectors_per_cluster
        THEN FAT_FindFile_Walk(vol, FAT_GetNextCluster(vol, cluster, io), 0, info,
                               FAT_GetNextCluster_Io(cluster, io))
        ELSE IF ~ReadOk(io)
        THEN [status |-> "FAT_ERROR_READ", info |-> info, io |-> AfterRead(io)]
        ELSE IF r.kind = "end"
        THEN [status |-> "FAT_ERROR_NOT_FOUND", info |-> info,
              io |-> AfterRead(io)]
        ELSE IF r.kind = "found"
        THEN [status |-> "FAT_OK",
              info |-> [first_cluster |-> r.first_cluster, size |-> r.size],
              io |-> AfterRead(io)]
        ELSE FAT_FindFile_Walk(vol, cluster, s + 1, info, AfterRead(io))

FAT_FindFile(vol, info, io) ==
    IF ~vol.mounted
    THEN [status |-> "FAT_ERROR_INVALID_PARAM", info |-> info, io |-> io]
    ELSE FAT_FindFile_Walk(vol, vol.root_cluster, 0, info, io)

\* the limit one link later
Media_CheckContiguous_Limit_Late(count, expected_clusters) ==
    count > expected_clusters + 11

\* Media_CheckContiguous: the safety limit (media_file_reader.c:204)
Media_CheckContiguous_Limit(count, expected_clusters) ==
    count > expected_clusters + 10

\* Media_CheckContiguous: one pass of the while loop from its condition on.
\* "contiguous" when the loop ends or breaks, "gap" at a link that is not
\* consecutive, "again" when the next pass follows
Media_CheckContiguous_Iteration(vol, cluster, prev, count, expected_clusters, io) ==
    LET Out(status, c, p, n, io2) ==
            [status |-> status, cluster |-> c, prev |-> p, count |-> n, io |-> io2]
        next == FAT_GetNextCluster(vol, cluster, io)
        io2 == FAT_GetNextCluster_Io(cluster, io)
    IN  IF FAT_IsEndOfChain(cluster) THEN Out("contiguous", cluster, prev, count, io)
        ELSE IF count + 1 > 1 /\ cluster # prev + 1
        THEN Out("gap", cluster, prev, count + 1, io)
        ELSE IF Media_CheckContiguous_Limit(count + 1, expected_clusters)
        THEN Out("contiguous", next, cluster, count + 1, io2)
        ELSE Out("again", next, cluster, count + 1, io2)

\* Media_CheckContiguous: the while loop; TRUE when it ends or breaks, FALSE
\* at a link that is not consecutive
RECURSIVE Media_CheckContiguous_Walk(_, _, _, _, _, _)
Media_CheckContiguous_Walk(vol, cluster, prev, count, expected_clusters, io) ==
    CHOOSE r \in
        { IF i.status = "again"
          THEN Media_CheckContiguous_Walk(vol, i.cluster, i.prev, i.count,
                                          expected_clusters, i.io)
          ELSE [contiguous |-> i.status = "contiguous", io |-> i.io] :
          i \in {Media_CheckContiguous_Iteration(vol, cluster, prev, count,
                                                 expected_clusters, io)} } :
        TRUE

\* Media_CheckContiguous: the handle when the loop has ended
Media_CheckContiguous_Result(m, contiguous) ==
    IF ~contiguous
    THEN [m EXCEPT !.is_contiguous = FALSE, !.first_sector = 0]
    ELSE [m EXCEPT !.is_contiguous = TRUE,
                   !.first_sector = FAT_ClusterToSector(m.vol, m.first_cluster),
                   !.cached_cluster = m.first_cluster,
                   !.cached_cluster_index = 0]

Media_CheckContiguous(m, io) ==
    LET cluster_size == FAT_GetClusterSize(m.vol)
        expected_clusters == (m.file_size + cluster_size - 1) \div cluster_size
        w == Media_CheckContiguous_Walk(m.vol, m.first_cluster, m.first_cluster,
                                        0, expected_clusters, io)
    IN  IF ~m.is_open \/ cluster_size = 0 THEN [m |-> m, io |-> io]
        ELSE [m |-> Media_CheckContiguous_Result(m, w.contiguous), io |-> w.io]

\* Media_Open: the handle when it is marked open, before the contiguity check
Media_Open_Opened(vol, file_info) ==
    LET cleared == [MediaZero EXCEPT !.vol = vol,
                                     !.first_cluster = file_info.first_cluster,
                                     !.file_size = file_info.size]
        first_sector == FAT_ClusterToSector(vol, file_info.first_cluster)
        is_header == first_sector = vol.hsd.header_sector
        frame_count == IF is_header THEN vol.hsd.frame_count ELSE 0
    IN  [cleared EXCEPT
            !.frame_count = frame_count,
            !.audio_size = IF is_header THEN vol.hsd.audio_size ELSE 0,
            !.sample_rate = IF is_header THEN vol.hsd.sample_rate ELSE 0,
            !.video_offset = MEDIA_HEADER_SIZE,
            !.audio_offset = MEDIA_HEADER_SIZE + frame_count * MEDIA_FRAME_SIZE,
            !.current_sample = 0,
            !.volume_percent = MEDIA_DEFAULT_VOLUME,
            !.is_open = TRUE]

\* Media_Open on handle m: the status, the handle and the reads issued
Media_Open(m, vol, file_info, io) ==
    LET cleared == [MediaZero EXCEPT !.vol = vol,
                                     !.first_cluster = file_info.first_cluster,
                                     !.file_size = file_info.size]
        c == Media_CheckContiguous(Media_Open_Opened(vol, file_info),
                                   AfterRead(io))
    IN  IF ~vol.mounted
        THEN [status |-> "FAT_ERROR_INVALID_PARAM", m |-> m, io |-> io]
        ELSE IF ~ReadOk(io)
        THEN [status |-> "FAT_ERROR_READ", m |-> cleared, io |-> AfterRead(io)]
        ELSE [status |-> "FAT_OK", m |-> c.m, io |-> c.io]

Media_Close(m) ==
    [m EXCEPT !.is_open = FALSE, !.current_sample = 0,
              !.cached_cluster = 0, !.cached_cluster_index = 0,
              !.is_contiguous = FALSE, !.first_sector = 0]

Media_SetVolume(m, percent) ==
    [m EXCEPT !.volume_percent = IF percent > 100 THEN 100 ELSE percent]

Media_ReadFrameAt_OffByOne(m, frame_number, old, io) ==
    LET offset == m.video_offset + frame_number * MEDIA_FRAME_SIZE
        r == Media_ReadAt(m, offset, MEDIA_FRAME_SIZE, io)
    IN  IF ~m.is_open \/ U32Gt(frame_number, m.frame_count)
        THEN [status |-> "FAT_ERROR_INVALID_PARAM", buf |-> old, m |-> m,
              io |-> io]
        ELSE [status |-> r.status, buf |-> Filled(r.buf, MEDIA_FRAME_SIZE),
              m |-> r.m, io |-> r.io]
\* Media_ReadFrameAt into a buffer holding old: the status, the buffer, the
\* handle and the reads issued
Media_ReadFrameAt(m, frame_number, old, io) ==
    LET offset == m.video_offset + frame_number * MEDIA_FRAME_SIZE
        r == Media_ReadAt(m, offset, MEDIA_FRAME_SIZE, io)
    IN  IF ~m.is_open \/ ~U32Gt(m.frame_count, frame_number)
        THEN [status |-> "FAT_ERROR_INVALID_PARAM", buf |-> old, m |-> m,
              io |-> io]
        ELSE [status |-> r.status, buf |-> Filled(r.buf, MEDIA_FRAME_SIZE),
              m |-> r.m, io |-> r.io]

\* C integer division, which truncates toward zero
TruncDiv(a, b) == IF a >= 0 THEN a \div b ELSE 0 - ((0 - a) \div b)

Media_ConvertSample_Shift3(raw, vol) ==
    LET scaled == TruncDiv(raw * vol, 100)
    IN  ((scaled + 32768) \div 8) % 65536
\* the conversion loop's body for one channel: int16_t raw, uint8_t vol; >> 4 of
\* a negative int32_t is the arithmetic shift (floor), the cast keeps 16 bits
Media_ConvertSample(raw, vol) ==
    LET scaled == TruncDiv(raw * vol, 100)
    IN  ((scaled + 32768) \div 16) % 65536

\* what Media_ReadAudioStereo leaves in left[] and right[]: samples [0, to_read)
\* are Media_ConvertSample at volume vol of the 4 * to_read bytes in data,
\* samples [to_read, count) are rest (DAC_SILENCE, or Untouched)
AudioOut(count, to_read, data, vol, rest) ==
    [count |-> count, to_read |-> to_read, data |-> data, vol |-> vol,
     rest |-> rest]

Media_ReadAudioStereo_PastEnd_Advancing(m, count, io) ==
    [status |-> "FAT_OK", out |-> AudioOut(count, 0, <<>>, 0, DAC_SILENCE),
     m |-> [m EXCEPT !.current_sample = @ + count], io |-> io]
\* Media_ReadAudioStereo, lines 304-310: current_sample >= total_samples
Media_ReadAudioStereo_PastEnd(m, count, io) ==
    [status |-> "FAT_OK", out |-> AudioOut(count, 0, <<>>, 0, DAC_SILENCE), m |-> m, io |-> io]

Media_ReadAudioStereo_OnError_Partial(count, r) ==
    [status |-> IF r.status = "HANG" THEN "HANG" ELSE "FAT_ERROR_READ",
     out |-> AudioOut(count, ExtentBytes(r.buf) \div 4, r.buf, r.m.volume_percent,
                    DAC_SILENCE),
     m |-> r.m, io |-> r.io]
\* Media_ReadAudioStereo, lines 320-327: Media_ReadAt returned r, not FAT_OK
Media_ReadAudioStereo_OnError(count, r) ==
    [status |-> IF r.status = "HANG" THEN "HANG" ELSE "FAT_ERROR_READ",
     out |-> AudioOut(count, 0, <<>>, 0, DAC_SILENCE), m |-> r.m, io |-> r.io]

Media_ReadAudioStereo_NoAdvance(m, asked, old, io) ==
    LET count == IF asked > MAX_AUDIO_READ_SAMPLES THEN MAX_AUDIO_READ_SAMPLES
                 ELSE asked
        bytes_per_sample == 4
        total_samples == m.audio_size \div bytes_per_sample
        available == total_samples - m.current_sample
        to_read == Min(count, available)
        offset == m.audio_offset + m.current_sample * bytes_per_sample
        bytes_to_read == to_read * bytes_per_sample
        r == Media_ReadAt(m, offset, bytes_to_read, io)
    IN  IF ~m.is_open
        THEN [status |-> "FAT_ERROR_INVALID_PARAM", out |-> old, m |-> m,
              io |-> io]
        ELSE IF m.current_sample >= total_samples
        THEN Media_ReadAudioStereo_PastEnd(m, count, io)
        ELSE IF r.status # "FAT_OK"
        THEN Media_ReadAudioStereo_OnError(count, r)
        ELSE [status |-> "FAT_OK",
              out |-> AudioOut(count, to_read, Filled(r.buf, bytes_to_read),
                               m.volume_percent, DAC_SILENCE),
              m |-> r.m,
              io |-> r.io]
Media_ReadAudioStereo_AdvanceOnError(m, asked, old, io) ==
    LET count == IF asked > MAX_AUDIO_READ_SAMPLES THEN MAX_AUDIO_READ_SAMPLES
                 ELSE asked
        bytes_per_sample == 4
        total_samples == m.audio_size \div bytes_per_sample
        available == total_samples - m.current_sample
        to_read == Min(count, available)
        offset == m.audio_offset + m.current_sample * bytes_per_sample
        bytes_to_read == to_read * bytes_per_sample
        r == Media_ReadAt(m, offset, bytes_to_read, io)
    IN  IF ~m.is_open
        THEN [status |-> "FAT_ERROR_INVALID_PARAM", out |-> old, m |-> m,
              io |-> io]
        ELSE IF m.current_sample >= total_samples
        THEN Media_ReadAudioStereo_PastEnd(m, count, io)
        ELSE IF r.status # "FAT_OK"
        THEN [Media_ReadAudioStereo_OnError(count, r) EXCEPT
                  !.m.current_sample = @ + to_read]
        ELSE [status |-> "FAT_OK",
              out |-> AudioOut(count, to_read, Filled(r.buf, bytes_to_read),
                               m.volume_percent, DAC_SILENCE),
              m |-> [r.m EXCEPT !.current_sample = @ + to_read],
              io |-> r.io]
\* Media_ReadAudioStereo with left[] and right[] holding old before the call; a
\* part of s_audio_buffer that Media_ReadAt did not fill is Untouched
Media_ReadAudioStereo(m, asked, old, io) ==
    LET count == IF asked > MAX_AUDIO_READ_SAMPLES THEN MAX_AUDIO_READ_SAMPLES
                 ELSE asked
        bytes_per_sample == 4
        total_samples == m.audio_size \div bytes_per_sample
        available == total_samples - m.current_sample
        to_read == Min(count, available)
        offset == m.audio_offset + m.current_sample * bytes_per_sample
        bytes_to_read == to_read * bytes_per_sample
        r == Media_ReadAt(m, offset, bytes_to_read, io)
    IN  IF ~m.is_open
        THEN [status |-> "FAT_ERROR_INVALID_PARAM", out |-> old, m |-> m,
              io |-> io]
        ELSE IF m.current_sample >= total_samples
        THEN Media_ReadAudioStereo_PastEnd(m, count, io)
        ELSE IF r.status # "FAT_OK"
        THEN Media_ReadAudioStereo_OnError(count, r)
        ELSE [status |-> "FAT_OK",
              out |-> AudioOut(count, to_read, Filled(r.buf, bytes_to_read),
                               m.volume_percent, DAC_SILENCE),
              m |-> [r.m EXCEPT !.current_sample = @ + to_read],
              io |-> r.io]

\* Media_ReadFrameAt's parameter checks pass
Media_FrameReadable(m, frame_number) ==
    m.is_open /\ U32Gt(m.frame_count, frame_number)

\* Media_ReadAudioStereo: samples it will convert from the file (0 past the end)
Media_AudioToRead(m, count) ==
    LET total_samples == m.audio_size \div 4
    IN  IF m.current_sample >= total_samples THEN 0
        ELSE IF count < total_samples - m.current_sample THEN count
        ELSE total_samples - m.current_sample

-----------------------------------------------------------------------------
(* The initial state *)

\* the foreground's locals, before any is assigned
Loc0 ==
    [render_buffer |-> 0, frame_number |-> 0,
     fill_half |-> "FIRST", to_read |-> 0, audio_src |-> "none",
     last_frame |-> 0, frame_count |-> 0, audio_frame |-> 0,
     decision |-> "NOT_STARTED", current_frame |-> 0,
     g_frames_rendered |-> 0, g_frames_repeated |-> 0,
     dst_caller |-> "usd", dst_result |-> FALSE,
     g_volume |-> VolumeZero, file_info |-> [first_cluster |-> 0, size |-> 0],
     media_status |-> "none", io |-> Io0(0),
     frame_buf |-> <<<<Untouched, MEDIA_FRAME_SIZE>>>>,
     audio_out |-> AudioOut(0, 0, <<>>, 0, Untouched),
     l_raw |-> 0, r_raw |-> 0, left |-> DAC_SILENCE, right |-> DAC_SILENCE,
     ra_offset0 |-> 0, ra_size0 |-> 0, ra_offset |-> 0, ra_size |-> 0,
     ra_buf |-> <<>>, ra_iter |-> 0,
     cluster |-> 0, prev |-> 0, count |-> 0, expected_clusters |-> 0,
     input |-> <<>>, output |-> <<>>, i |-> 0, o |-> 0, conversions |-> 0,
     first_output |-> <<>>,
     hsd_initialized |-> FALSE, mount_status |-> "none", mounted_before |-> FALSE,
     card |-> [initialized |-> FALSE],
     g_sd |-> SdZero, spi_dma_active |-> FALSE, sd_call |-> "none",
     sd_count |-> 0, sd_i |-> 0, sd_status |-> "none",
     completions |-> 0, dma_errors |-> 0, dma_timeouts |-> 0,
     dma_start_failures |-> 0]

\* isr_since_read: an audio interrupt ran after RefillAudioBuffers last read
\* fill_half; vfr_at_decision: video_frames_rendered when the playback loop
\* last took a decision; drew: that iteration passed the guard of its RENDER
\* case and drew a frame; media_call: the media or FAT function called last;
\* read_failed: a block read failed in some call since the volume was mounted;
\* delivered: the bytes of the samples that Media_ReadAudioStereo calls have
\* converted since Media_Open, in the order of the calls; written: the half
\* that the RefillAudioBuffers call in progress has stored all its samples into;
\* frames_read: the frame numbers the playback loop has passed to
\* RenderVideoFrame, and so to Media_ReadFrameAt, in the order of the calls;
\* transfers_started: the calls of Display_StartTransfer that returned true
Hist0 ==
    [isr_since_read |-> FALSE, vfr_at_decision |-> 0, drew |-> FALSE,
     media_call |-> "none", read_failed |-> FALSE, delivered |-> <<>>,
     audio_call |-> "none", audio_status |-> "none", audio_before |-> "RESET",
     written |-> "none", frames_read |-> <<>>, transfers_started |-> 0,
     play_log |-> PlayLog0]

\* the I2C DMA channel: idle, or reading the buffer it was started on
I2cDma0 == [busy |-> FALSE, buf |-> 0]

\* static storage before main() has run: the part no driver has touched
StaticOther ==
    /\ sync_ret = [call |-> "none", decision |-> "NOT_STARTED"]
    /\ fault = FALSE
    /\ g_display_buffers = TripleBuffer0
    /\ g_framebuffer = Framebuffer0
    /\ i2c_dma = I2cDma0
    /\ loc = Loc0
    /\ hist = Hist0

\* static storage before main() has run
StaticStorage ==
    /\ StaticOther
    /\ sync = AVSyncZero
    /\ audio = AudioZero
    /\ dac_dma = DacDma0
    /\ s_dma_buffer = DmaBuffer0
    /\ g_media = MediaZero

\* the synchronizer's clients start from static storage
InitSync ==
    /\ StaticStorage
    /\ g_display = [dma_busy |-> FALSE, last_error |-> "OK", initialized |-> FALSE]
    /\ pc = "idle"
    /\ ret = "idle"

-----------------------------------------------------------------------------
(* SpecSync: the synchronizer under any sequence of calls of its API *)

\* arguments of AVSync_Init: 0 is rejected, 20/30 gives samples_per_frame 0
SampleRates == {0, 20, 60, 90}
VideoFpsSet == {0, VIDEO_FPS}
MaxDrifts == {0, 1, UINT32_MAX}
\* arguments of AVSync_AudioTick
TickSamples == {1, 2}

notSyncVars == <<audioVars, displayVars, fgVars, hist>>

\* sync_ret keeps the arguments of the call while AVSync_Init is the last call
Call_AVSync_Init ==
    /\ ~fault
    /\ \E sample_rate \in SampleRates, video_fps \in VideoFpsSet,
          max_drift \in MaxDrifts :
            /\ sync' = AVSync_Init(sync, sample_rate, video_fps, max_drift)
            /\ sync_ret' = [call |-> "AVSync_Init", decision |-> "NOT_STARTED",
                            args |-> [sample_rate |-> sample_rate,
                                      video_fps |-> video_fps,
                                      max_drift |-> max_drift]]
    /\ UNCHANGED <<fault, notSyncVars>>

Call_AVSync_Start ==
    /\ ~fault
    /\ sync' = AVSync_Start(sync)
    /\ sync_ret' = [call |-> "AVSync_Start", decision |-> "NOT_STARTED"]
    /\ UNCHANGED <<fault, notSyncVars>>

Call_AVSync_Stop ==
    /\ ~fault
    /\ sync' = AVSync_Stop(sync)
    /\ sync_ret' = [call |-> "AVSync_Stop", decision |-> "NOT_STARTED"]
    /\ UNCHANGED <<fault, notSyncVars>>

Call_AVSync_AudioTick ==
    /\ ~fault
    /\ \E samples \in TickSamples :
        /\ sync.audio_samples_played + samples <= MaxSamplesPlayed
        /\ sync' = AVSync_AudioTick(sync, samples)
    /\ sync_ret' = [call |-> "AVSync_AudioTick", decision |-> "NOT_STARTED"]
    /\ UNCHANGED <<fault, notSyncVars>>

\* AVSync_GetFrameDecision outside RUNNING
Call_AVSync_GetFrameDecision_NotStarted ==
    /\ ~fault
    /\ sync.state # "RUNNING"
    /\ sync_ret' = [call |-> "AVSync_GetFrameDecision", decision |-> "NOT_STARTED"]
    /\ UNCHANGED <<sync, fault, notSyncVars>>

\* AVSync_GetFrameDecision in RUNNING.  audio_samples_played / samples_per_frame
\* with samples_per_frame = 0 is undefined: UDIV yields 0 (DIV_0_TRP clear) ...
Call_AVSync_GetFrameDecision ==
    /\ ~fault
    /\ sync.state = "RUNNING"
    /\ LET audio_frame == IF sync.samples_per_frame = 0 THEN 0
                          ELSE sync.audio_samples_played \div sync.samples_per_frame
           drift == AVSync_Drift(sync, audio_frame)
       IN /\ sync' = [sync EXCEPT !.stats = AVSync_DriftStats(sync.stats, drift)]
          /\ sync_ret' = [call |-> "AVSync_GetFrameDecision",
                          decision |-> AVSync_Decide(sync, drift)]
    /\ UNCHANGED <<fault, notSyncVars>>

\* ... or the division traps (UsageFault, DIV_0_TRP set) and the CPU stops
Call_AVSync_GetFrameDecision_Trap ==
    /\ ~fault
    /\ sync.state = "RUNNING"
    /\ sync.samples_per_frame = 0
    /\ fault' = TRUE
    /\ sync_ret' = [call |-> "AVSync_GetFrameDecision", decision |-> "NOT_STARTED"]
    /\ UNCHANGED <<sync, notSyncVars>>

Call_AVSync_FrameRendered ==
    /\ ~fault
    /\ sync.video_frames_rendered < MaxVideoFrames
    /\ sync' = AVSync_FrameRendered(sync)
    /\ sync_ret' = [call |-> "AVSync_FrameRendered", decision |-> "NOT_STARTED"]
    /\ UNCHANGED <<fault, notSyncVars>>

Call_AVSync_FrameSkipped ==
    /\ ~fault
    /\ sync.video_frames_rendered < MaxVideoFrames
    /\ sync' = AVSync_FrameSkipped(sync)
    /\ sync_ret' = [call |-> "AVSync_FrameSkipped", decision |-> "NOT_STARTED"]
    /\ UNCHANGED <<fault, notSyncVars>>

NextSync ==
    \/ Call_AVSync_Init
    \/ Call_AVSync_Start
    \/ Call_AVSync_Stop
    \/ Call_AVSync_AudioTick
    \/ Call_AVSync_GetFrameDecision_NotStarted
    \/ Call_AVSync_GetFrameDecision
    \/ Call_AVSync_GetFrameDecision_Trap
    \/ Call_AVSync_FrameRendered
    \/ Call_AVSync_FrameSkipped

SpecSync == InitSync /\ [][NextSync]_vars

-----------------------------------------------------------------------------
(* The display pipeline: main.c RenderVideoFrame and UpdateDisplay, ssd1306.c  *)
(* SSD1306_UpdateScreen_DMA and the I2C DMA callbacks.  The foreground steps   *)
(* are shared by SpecDisplay (any order of calls) and Spec (the playback loop) *)
(* and return to ret.                                                          *)

notDisplayVars == <<syncVars, audioVars, g_media, hist>>

\* RenderVideoFrame: render_buffer = Display_GetRenderBuffer()
RVF_GetRenderBuffer ==
    /\ ~fault /\ pc = "rvf_get"
    /\ loc' = [loc EXCEPT !.render_buffer = Display_GetRenderBuffer(g_display_buffers)]
    /\ pc' = "rvf_write"
    /\ UNCHANGED <<fault, displayVars, ret, notDisplayVars>>

\* Media_ReadFrameAt starts to fill the buffer (the block reads take milliseconds)
RVF_WriteBegin ==
    /\ ~fault /\ pc = "rvf_write"
    /\ g_framebuffer' = [g_framebuffer EXCEPT ![loc.render_buffer] =
            [seq |-> g_display_buffers.frames_rendered + 1,
             whole |-> FALSE, blank |-> FALSE]]
    /\ pc' = "rvf_writing"
    /\ UNCHANGED <<fault, g_display_buffers, g_display, i2c_dma, ret, loc,
                   notDisplayVars>>

\* Media_ReadFrameAt returns FAT_OK with the frame in the buffer, or fails and
\* the buffer is blanked by memset
RVF_WriteEnd ==
    /\ ~fault /\ pc = "rvf_writing"
    /\ \E read_ok \in BOOLEAN :
        g_framebuffer' = [g_framebuffer EXCEPT ![loc.render_buffer] =
            [seq |-> g_display_buffers.frames_rendered + 1,
             whole |-> TRUE,
             blank |-> ~(read_ok /\ Media_FrameReadable(g_media, loc.frame_number))]]
    /\ pc' = "rvf_swap"
    /\ UNCHANGED <<fault, g_display_buffers, g_display, i2c_dma, ret, loc,
                   notDisplayVars>>

\* RenderVideoFrame: Display_SwapBuffers() and return
RVF_SwapBuffers ==
    /\ ~fault /\ pc = "rvf_swap"
    /\ g_display_buffers' = Display_SwapBuffers(g_display_buffers)
    /\ pc' = ret
    /\ UNCHANGED <<fault, g_framebuffer, g_display, i2c_dma, ret, loc,
                   notDisplayVars>>

\* UpdateDisplay: if (SSD1306_IsDMABusy(&g_display)) return;
UD_IsDMABusy ==
    /\ ~fault /\ pc = "ud_busy"
    /\ pc' = IF g_display.dma_busy THEN ret ELSE "ud_has"
    /\ UNCHANGED <<fault, displayVars, ret, loc, notDisplayVars>>

\* UpdateDisplay: if (!Display_HasFrame()) return; SSD1306_UpdateScreen_DMA(..)
UD_HasFrame ==
    /\ ~fault /\ pc = "ud_has"
    /\ pc' = IF Display_HasFrame(g_display_buffers) THEN "usd_entry" ELSE ret
    /\ UNCHANGED <<fault, displayVars, ret, loc, notDisplayVars>>

\* SSD1306_UpdateScreen_DMA: the initialized and dma_busy checks
USD_Entry ==
    /\ ~fault /\ pc = "usd_entry"
    /\ pc' = IF ~g_display.initialized \/ g_display.dma_busy THEN ret
             ELSE "dst_busy"
    /\ loc' = [loc EXCEPT !.dst_caller = "usd"]
    /\ UNCHANGED <<fault, displayVars, ret, notDisplayVars>>

\* Display_StartTransfer returns result: SSD1306_UpdateScreen_DMA tests it at
\* once (false: return SSD1306_ERROR), another caller keeps it
DST_Return(result) ==
    IF loc.dst_caller = "usd"
    THEN /\ pc' = IF result THEN "usd_addr" ELSE ret
         /\ UNCHANGED loc
    ELSE /\ pc' = ret
         /\ loc' = [loc EXCEPT !.dst_result = result]

\* Display_StartTransfer: if (g_display_buffers.transfer_busy) return false;
DST_CheckBusy ==
    /\ ~fault /\ pc = "dst_busy"
    /\ IF g_display_buffers.transfer_busy
       THEN DST_Return(FALSE)
       ELSE pc' = "dst_has" /\ UNCHANGED loc
    /\ UNCHANGED <<fault, displayVars, ret, notDisplayVars>>

\* mutant: the has-frame check is skipped
DST_CheckHasFrame_Skipped ==
    /\ ~fault /\ pc = "dst_has"
    /\ pc' = "dst_swap"
    /\ UNCHANGED <<fault, displayVars, ret, loc, notDisplayVars>>

\* Display_StartTransfer: if (!Display_HasFrame()) return false;
DST_CheckHasFrame ==
    /\ ~fault /\ pc = "dst_has"
    /\ IF Display_HasFrame(g_display_buffers)
       THEN pc' = "dst_swap" /\ UNCHANGED loc
       ELSE DST_Return(FALSE)
    /\ UNCHANGED <<fault, displayVars, ret, notDisplayVars>>

\* Display_StartTransfer: the masked swap; it returns true
DST_Swap ==
    /\ ~fault /\ pc = "dst_swap"
    /\ g_display_buffers' = Display_StartTransfer_Swap(g_display_buffers)
    /\ DST_Return(TRUE)
    /\ hist' = [hist EXCEPT !.transfers_started = @ + 1]
    /\ UNCHANGED <<fault, g_framebuffer, g_display, i2c_dma, ret,
                   syncVars, audioVars, g_media>>

\* SSD1306_UpdateScreen_DMA: SSD1306_SetAddressWindow (blocking I2C writes)
\* succeeds, or fails and the transfer is given up
USD_SetAddressWindow ==
    /\ ~fault /\ pc = "usd_addr"
    /\ \E i2c_ok \in BOOLEAN :
        IF i2c_ok
        THEN /\ pc' = "usd_start"
             /\ UNCHANGED <<g_display_buffers, g_display>>
        ELSE /\ g_display' = [g_display EXCEPT !.last_error = "ERROR_I2C"]
             /\ g_display_buffers' = Display_TransferComplete(g_display_buffers)
             /\ pc' = ret
    /\ UNCHANGED <<fault, g_framebuffer, i2c_dma, ret, loc, notDisplayVars>>

\* SSD1306_UpdateScreen_DMA: dma_busy = true; HAL_I2C_Mem_Write_DMA starts the
\* transfer of Display_GetTransferBuffer(), or fails
USD_StartDMA ==
    /\ ~fault /\ pc = "usd_start"
    /\ \E hal_ok \in BOOLEAN :
        IF hal_ok
        THEN /\ g_display' = [g_display EXCEPT !.dma_busy = TRUE]
             /\ i2c_dma' = [busy |-> TRUE,
                             buf |-> Display_GetTransferBuffer(g_display_buffers)]
             /\ UNCHANGED g_display_buffers
        ELSE /\ g_display' = [g_display EXCEPT !.dma_busy = FALSE,
                                               !.last_error = "ERROR_I2C"]
             /\ g_display_buffers' = Display_TransferComplete(g_display_buffers)
             /\ UNCHANGED i2c_dma
    /\ pc' = ret
    /\ UNCHANGED <<fault, g_framebuffer, ret, loc, notDisplayVars>>

\* HAL_I2C_MemTxCpltCallback -> SSD1306_DMA_CompleteCallback (interrupt)
ISR_I2C_Complete ==
    /\ ~fault /\ i2c_dma.busy
    /\ i2c_dma' = [i2c_dma EXCEPT !.busy = FALSE]
    /\ g_display' = [g_display EXCEPT !.dma_busy = FALSE]
    /\ g_display_buffers' = Display_TransferComplete(g_display_buffers)
    /\ UNCHANGED <<fault, g_framebuffer, pc, ret, loc, notDisplayVars>>

\* HAL_I2C_ErrorCallback -> SSD1306_DMA_ErrorCallback (interrupt)
ISR_I2C_Error ==
    /\ ~fault /\ i2c_dma.busy
    /\ i2c_dma' = [i2c_dma EXCEPT !.busy = FALSE]
    /\ g_display' = [g_display EXCEPT !.dma_busy = FALSE,
                                      !.last_error = "ERROR_I2C"]
    /\ g_display_buffers' = Display_TransferComplete(g_display_buffers)
    /\ UNCHANGED <<fault, g_framebuffer, pc, ret, loc, notDisplayVars>>

-----------------------------------------------------------------------------
(* SpecDisplay: the display pipeline under any order of foreground calls *)

\* frame_count of the file SpecDisplay draws from
DisplayFrameCount == 2

\* after Buffers_Init(), a successful SSD1306_Init() and Media_Open()
InitDisplay ==
    /\ StaticOther
    /\ sync = AVSyncZero
    /\ audio = AudioZero
    /\ dac_dma = DacDma0
    /\ s_dma_buffer = DmaBuffer0
    /\ g_media = [MediaZero EXCEPT !.is_open = TRUE,
                                   !.frame_count = DisplayFrameCount]
    /\ g_display = [dma_busy |-> FALSE, last_error |-> "OK", initialized |-> TRUE]
    /\ pc = "idle"
    /\ ret = "idle"

\* the client draws a frame: RenderVideoFrame(frame_number), with a frame of the
\* file or the first number past its end
Call_RenderVideoFrame ==
    /\ ~fault /\ pc = "idle"
    /\ g_display_buffers.frames_rendered < MaxFramesRendered
    /\ \E frame_number \in {0, DisplayFrameCount} :
        loc' = [loc EXCEPT !.frame_number = frame_number]
    /\ pc' = "rvf_get"
    /\ ret' = "idle"
    /\ UNCHANGED <<fault, displayVars, notDisplayVars>>

Call_UpdateDisplay ==
    /\ ~fault /\ pc = "idle"
    /\ pc' = "ud_busy"
    /\ ret' = "idle"
    /\ UNCHANGED <<fault, displayVars, loc, notDisplayVars>>

Call_SSD1306_UpdateScreen_DMA ==
    /\ ~fault /\ pc = "idle"
    /\ pc' = "usd_entry"
    /\ ret' = "idle"
    /\ UNCHANGED <<fault, displayVars, loc, notDisplayVars>>

\* a caller other than the driver: Display_StartTransfer() ...
Call_Display_StartTransfer ==
    /\ ~fault /\ pc = "idle"
    /\ pc' = "dst_busy"
    /\ ret' = "idle"
    /\ loc' = [loc EXCEPT !.dst_caller = "client"]
    /\ UNCHANGED <<fault, displayVars, notDisplayVars>>

\* ... and, some time after it returned true, Display_TransferComplete() for
\* the transfer it owns (as the driver does when its I2C write fails)
Call_Display_TransferComplete ==
    /\ ~fault /\ pc = "idle"
    /\ g_display_buffers.transfer_busy
    /\ ~g_display.dma_busy
    /\ g_display_buffers' = Display_TransferComplete(g_display_buffers)
    /\ UNCHANGED <<fault, g_framebuffer, g_display, i2c_dma, pc, ret, loc,
                   notDisplayVars>>

NextDisplay ==
    \/ Call_RenderVideoFrame
    \/ Call_UpdateDisplay
    \/ Call_SSD1306_UpdateScreen_DMA
    \/ Call_Display_StartTransfer
    \/ Call_Display_TransferComplete
    \/ RVF_GetRenderBuffer
    \/ RVF_WriteBegin
    \/ RVF_WriteEnd
    \/ RVF_SwapBuffers
    \/ UD_IsDMABusy
    \/ UD_HasFrame
    \/ USD_Entry
    \/ DST_CheckBusy
    \/ DST_CheckHasFrame
    \/ DST_Swap
    \/ USD_SetAddressWindow
    \/ USD_StartDMA
    \/ ISR_I2C_Complete
    \/ ISR_I2C_Error

SpecDisplay == InitDisplay /\ [][NextDisplay]_vars

-----------------------------------------------------------------------------
(* The audio path: the DAC DMA interrupts of audio_dac.c and main.c's          *)
(* RefillAudioBuffers.  The foreground steps are shared by SpecAudio and Spec  *)
(* and return to ret.                                                          *)

notAudioVars == <<sync_ret, displayVars>>

\* HAL_DAC_ConvHalfCpltCallbackCh1: the DMA has read the first half and goes on
\* into the second
ISR_DAC_HalfComplete ==
    /\ ~fault /\ dac_dma.running /\ dac_dma.playing = "FIRST"
    /\ audio.stats.samples_played
            < MaxAudioInterrupts * AUDIO_HALF_BUFFER_SAMPLES
    /\ dac_dma' = [dac_dma EXCEPT !.playing = "SECOND"]
    /\ audio' = audio_HandleDMA(audio, TRUE)
    /\ sync' = audio_HandleDMA_Sync(audio, sync)
    /\ hist' = [hist EXCEPT
                    !.isr_since_read = TRUE,
                    !.play_log = PlayLog_Interrupt(@, audio, s_dma_buffer,
                                                   dac_dma.playing)]
    /\ UNCHANGED <<fault, s_dma_buffer, fgVars, notAudioVars>>

\* HAL_DAC_ConvCpltCallbackCh1: the DMA has read the second half and wraps to
\* the first
ISR_DAC_Complete ==
    /\ ~fault /\ dac_dma.running /\ dac_dma.playing = "SECOND"
    /\ audio.stats.samples_played
            < MaxAudioInterrupts * AUDIO_HALF_BUFFER_SAMPLES
    /\ dac_dma' = [dac_dma EXCEPT !.playing = "FIRST"]
    /\ audio' = audio_HandleDMA(audio, FALSE)
    /\ sync' = audio_HandleDMA_Sync(audio, sync)
    /\ hist' = [hist EXCEPT
                    !.isr_since_read = TRUE,
                    !.play_log = PlayLog_Interrupt(@, audio, s_dma_buffer,
                                                   dac_dma.playing)]
    /\ UNCHANGED <<fault, s_dma_buffer, fgVars, notAudioVars>>

\* HAL_DAC_ConvHalfCpltCallbackCh2, HAL_DAC_ConvCpltCallbackCh2: the RIGHT
\* channel's callbacks have empty bodies
ISR_DAC_Ch2 ==
    /\ ~fault /\ dac_dma.running
    /\ UNCHANGED vars

\* RefillAudioBuffers: if (!audio_NeedsRefill(&g_audio)) return;
RAF_NeedsRefill ==
    /\ ~fault /\ pc = "raf_needs"
    /\ pc' = IF audio_NeedsRefill(audio) THEN "raf_half" ELSE ret
    /\ UNCHANGED <<fault, sync, audioVars, g_media, ret, loc, hist, notAudioVars>>

\* RefillAudioBuffers: fill_half = audio_GetFillHalf(&g_audio)
RAF_GetFillHalf ==
    /\ ~fault /\ pc = "raf_half"
    /\ loc' = [loc EXCEPT !.fill_half = audio_GetFillHalf(audio)]
    /\ hist' = [hist EXCEPT !.isr_since_read = FALSE, !.written = "none"]
    /\ pc' = "raf_read"
    /\ UNCHANGED <<fault, sync, audioVars, g_media, ret, notAudioVars>>

\* Media_ReadAudioStereo up to its first store: not open (nothing is written),
\* past the end (silence), or the blocking read of the samples, which succeeds
\* or fails (silence)
RAF_ReadAudio ==
    /\ ~fault /\ pc = "raf_read"
    /\ IF ~g_media.is_open
       THEN /\ pc' = "raf_filled"
            /\ UNCHANGED <<loc, hist>>
       ELSE /\ pc' = "raf_writing"
            /\ LET to_read == Media_AudioToRead(g_media, AUDIO_HALF_BUFFER_SAMPLES)
               IN  IF to_read = 0
                   THEN /\ loc' = [loc EXCEPT !.to_read = 0,
                                              !.audio_src = "silence"]
                        /\ UNCHANGED hist
                   ELSE \E read_ok \in BOOLEAN :
                        /\ loc' = [loc EXCEPT
                                     !.to_read = IF read_ok THEN to_read ELSE 0,
                                     !.audio_src = IF read_ok THEN "samples"
                                                   ELSE "silence"]
                        /\ hist' = [hist EXCEPT
                                        !.play_log = PlayLog_Read(@, read_ok)]
    /\ UNCHANGED <<fault, sync, audioVars, g_media, ret, notAudioVars>>

\* mutant: current_sample is left as it was
RAF_WriteHalf_NoAdvance ==
    /\ ~fault /\ pc = "raf_writing"
    /\ s_dma_buffer' = [s_dma_buffer EXCEPT ![loc.fill_half] =
            HalfBuffer(loc.audio_src, g_media.current_sample, loc.to_read)]
    /\ g_media' = g_media
    /\ hist' = [hist EXCEPT !.written = loc.fill_half]
    /\ pc' = "raf_filled"
    /\ UNCHANGED <<fault, sync, audio, dac_dma, ret, loc, notAudioVars>>

\* Media_ReadAudioStereo: the stores into left[] and right[] of the half are
\* done, current_sample is advanced
RAF_WriteHalf ==
    /\ ~fault /\ pc = "raf_writing"
    /\ s_dma_buffer' = [s_dma_buffer EXCEPT ![loc.fill_half] =
            HalfBuffer(loc.audio_src, g_media.current_sample, loc.to_read)]
    /\ g_media' = [g_media EXCEPT
                     !.current_sample = g_media.current_sample + loc.to_read]
    /\ hist' = [hist EXCEPT !.written = loc.fill_half]
    /\ pc' = "raf_filled"
    /\ UNCHANGED <<fault, sync, audio, dac_dma, ret, loc, notAudioVars>>

\* RefillAudioBuffers: audio_BufferFilled(&g_audio) and return
RAF_BufferFilled ==
    /\ ~fault /\ pc = "raf_filled"
    /\ audio' = audio_BufferFilled(audio)
    /\ pc' = ret
    /\ UNCHANGED <<fault, sync, dac_dma, s_dma_buffer, g_media, ret, loc, hist,
                   notAudioVars>>

-----------------------------------------------------------------------------
(* SpecAudio: the circular DMA's interrupts against the foreground refill *)

\* audio_size of the header, in bytes
AudioSizes == {0, 4 * 3000, 4 * 3 * AUDIO_HALF_BUFFER_SAMPLES}

\* after audio_Init, audio_SetAVSync and the two prefill reads of main(), and
\* audio_Start; the synchronizer is running or was never initialized
InitAudio ==
    /\ StaticOther
    /\ \E audio_size \in AudioSizes :
        LET m == [MediaZero EXCEPT !.is_open = TRUE, !.audio_size = audio_size]
            r1 == Media_AudioToRead(m, AUDIO_HALF_BUFFER_SAMPLES)
            m1 == [m EXCEPT !.current_sample = r1]
            r2 == Media_AudioToRead(m1, AUDIO_HALF_BUFFER_SAMPLES)
        IN  /\ g_media = [m1 EXCEPT !.current_sample = r1 + r2]
            /\ s_dma_buffer =
                [h \in {"FIRST", "SECOND"} |->
                    IF (IF h = "FIRST" THEN r1 ELSE r2) = 0
                    THEN HalfBuffer("silence", 0, 0)
                    ELSE IF h = "FIRST" THEN HalfBuffer("samples", 0, r1)
                    ELSE HalfBuffer("samples", r1, r2)]
    /\ \E with_sync \in BOOLEAN :
        sync = IF with_sync
               THEN AVSync_Start(AVSync_Init(AVSyncZero,
                        VIDEO_FPS * AUDIO_HALF_BUFFER_SAMPLES, VIDEO_FPS, 0))
               ELSE AVSyncZero
    /\ audio = audio_Start(audio_SetAVSync(audio_Init(AudioZero)))
    /\ dac_dma = [running |-> TRUE, playing |-> "FIRST"]
    /\ g_display = [dma_busy |-> FALSE, last_error |-> "OK", initialized |-> FALSE]
    /\ pc = "idle"
    /\ ret = "idle"

Call_RefillAudioBuffers ==
    /\ ~fault /\ pc = "idle"
    /\ pc' = "raf_needs"
    /\ ret' = "idle"
    /\ UNCHANGED <<fault, sync, audioVars, g_media, loc, hist, notAudioVars>>

NextAudio ==
    \/ Call_RefillAudioBuffers
    \/ RAF_NeedsRefill
    \/ RAF_GetFillHalf
    \/ RAF_ReadAudio
    \/ RAF_WriteHalf
    \/ RAF_BufferFilled
    \/ ISR_DAC_HalfComplete
    \/ ISR_DAC_Complete
    \/ ISR_DAC_Ch2

SpecAudio == InitAudio /\ [][NextAudio]_vars

-----------------------------------------------------------------------------
(* SpecAudioApi: the audio driver under any sequence of calls of its API, with *)
(* the DAC DMA interrupts while the DMA runs.  hist keeps the last call of     *)
(* audio_Init, audio_Start or audio_Stop: its name, its return value ("void"   *)
(* for audio_Stop) and the state of the handle when it was made                *)

AudioCall(call, status) ==
    [hist EXCEPT !.audio_call = call, !.audio_status = status,
                 !.audio_before = audio.state]

notAudioApiVars == <<sync_ret, displayVars, fgVars>>

\* audio_Init(&g_audio, &hdac1, &htim6)
Call_audio_Init ==
    /\ ~fault
    /\ audio' = audio_Init(audio)
    /\ s_dma_buffer' = [h \in {"FIRST", "SECOND"} |-> HalfBuffer("silence", 0, 0)]
    /\ hist' = AudioCall("audio_Init", "AUDIO_OK")
    /\ UNCHANGED <<fault, sync, dac_dma, notAudioApiVars>>

\* audio_SetAVSync(&g_audio, &g_avsync)
Call_audio_SetAVSync ==
    /\ ~fault
    /\ audio' = audio_SetAVSync(audio)
    /\ UNCHANGED <<fault, sync, dac_dma, s_dma_buffer, hist, notAudioApiVars>>

\* audio_Start(&g_audio).  Where the circular DMA already runs,
\* HAL_DAC_Start_DMA leaves it running or starts it again from the first half
Call_audio_Start ==
    /\ ~fault
    /\ audio' = audio_Start(audio)
    /\ IF ~audio.initialized
       THEN /\ hist' = AudioCall("audio_Start", "AUDIO_ERROR")
            /\ UNCHANGED dac_dma
       ELSE /\ hist' = AudioCall("audio_Start", "AUDIO_OK")
            /\ \E playing \in {"FIRST"} \cup
                      (IF dac_dma.running THEN {dac_dma.playing} ELSE {}) :
                   dac_dma' = [running |-> TRUE, playing |-> playing]
    /\ UNCHANGED <<fault, sync, s_dma_buffer, notAudioApiVars>>

\* audio_Stop(&g_audio).  On a handle that audio_Init has not set up, hdac and
\* htim are null pointers and the HAL calls dereference them: the call traps
\* or goes on
Call_audio_Stop ==
    /\ ~fault
    /\ \E trap \in (IF audio.initialized THEN {FALSE} ELSE BOOLEAN) :
        IF trap
        THEN /\ fault' = TRUE
             /\ UNCHANGED <<audio, dac_dma, hist>>
        ELSE /\ audio' = audio_Stop(audio)
             /\ dac_dma' = [dac_dma EXCEPT !.running = FALSE]
             /\ hist' = AudioCall("audio_Stop", "void")
             /\ UNCHANGED fault
    /\ UNCHANGED <<sync, s_dma_buffer, notAudioApiVars>>

\* audio_BufferFilled(&g_audio)
Call_audio_BufferFilled ==
    /\ ~fault
    /\ audio.stats.refill_count < MaxAudioInterrupts
    /\ audio' = audio_BufferFilled(audio)
    /\ UNCHANGED <<fault, sync, dac_dma, s_dma_buffer, hist, notAudioApiVars>>

NextAudioApi ==
    \/ Call_audio_Init
    \/ Call_audio_SetAVSync
    \/ Call_audio_Start
    \/ Call_audio_Stop
    \/ Call_audio_BufferFilled
    \/ ISR_DAC_HalfComplete
    \/ ISR_DAC_Complete
    \/ ISR_DAC_Ch2

SpecAudioApi == InitSync /\ [][NextAudioApi]_vars

-----------------------------------------------------------------------------
(* Spec: main() of main.c from AVSync_Init (line 298) to the end of playback, *)
(* with the DAC and I2C interrupts                                            *)

\* header fields of the media file (Media_Open takes them as they are)
HeaderSampleRates == {0, 20, VIDEO_FPS * 1024}
HeaderFrameCounts == {0, 3}
HeaderAudioSize == 4 * AUDIO_HALF_BUFFER_SAMPLES

\* after Buffers_Init, SSD1306_Init and Media_Open have succeeded
Init ==
    /\ StaticOther
    /\ sync = AVSyncZero
    /\ audio = AudioZero
    /\ dac_dma = DacDma0
    /\ s_dma_buffer = DmaBuffer0
    /\ \E sample_rate \in HeaderSampleRates, frame_count \in HeaderFrameCounts :
        g_media = [MediaZero EXCEPT !.is_open = TRUE,
                                    !.frame_count = frame_count,
                                    !.audio_size = HeaderAudioSize,
                                    !.sample_rate = sample_rate]
    /\ g_display = [dma_busy |-> FALSE, last_error |-> "OK", initialized |-> TRUE]
    /\ pc = "main_init"
    /\ ret = "main_init"

\* AVSync_Init(&g_avsync, g_media.sample_rate, VIDEO_FPS, 0) (result ignored),
\* audio_Init, audio_SetAVSync
M_Init ==
    /\ ~fault /\ pc = "main_init"
    /\ sync' = AVSync_Init(sync, g_media.sample_rate, VIDEO_FPS, 0)
    /\ audio' = audio_SetAVSync(audio_Init(audio))
    /\ s_dma_buffer' = [h \in {"FIRST", "SECOND"} |-> HalfBuffer("silence", 0, 0)]
    /\ pc' = "main_prefill1"
    /\ UNCHANGED <<fault, sync_ret, dac_dma, displayVars, g_media, ret, loc, hist>>

\* one prefill call of Media_ReadAudioStereo (the DMA is not started yet)
M_Prefill(here, half, next) ==
    /\ ~fault /\ pc = here
    /\ LET to_read == Media_AudioToRead(g_media, AUDIO_HALF_BUFFER_SAMPLES)
       IN  \E read_ok \in BOOLEAN :
            /\ s_dma_buffer' = [s_dma_buffer EXCEPT ![half] =
                    IF read_ok /\ to_read > 0
                    THEN HalfBuffer("samples", g_media.current_sample, to_read)
                    ELSE HalfBuffer("silence", 0, 0)]
            /\ g_media' = [g_media EXCEPT !.current_sample =
                    IF read_ok THEN g_media.current_sample + to_read
                    ELSE g_media.current_sample]
            /\ hist' = [hist EXCEPT
                            !.play_log = PlayLog_Read(@, read_ok \/ to_read = 0)]
    /\ pc' = next
    /\ UNCHANGED <<fault, syncVars, audio, dac_dma, displayVars>>

M_Prefill1 ==
    /\ M_Prefill("main_prefill1", "FIRST", "main_prefill2")
    /\ UNCHANGED <<ret, loc>>

\* the second prefill, then RenderVideoFrame(0)
M_Prefill2 ==
    /\ M_Prefill("main_prefill2", "SECOND", "rvf_get")
    /\ loc' = [loc EXCEPT !.frame_number = 0]
    /\ ret' = "main_start"

\* AVSync_Start, audio_Start (the circular DMA starts on the first half), the
\* loop's locals; the loop begins with RefillAudioBuffers()
M_Start ==
    /\ ~fault /\ pc = "main_start"
    /\ sync' = AVSync_Start(sync)
    /\ audio' = audio_Start(audio)
    /\ dac_dma' = IF audio.initialized
                  THEN [running |-> TRUE, playing |-> "FIRST"] ELSE dac_dma
    /\ loc' = [loc EXCEPT !.last_frame = UINT32_MAX,
                          !.frame_count = g_media.frame_count]
    /\ pc' = "raf_needs"
    /\ ret' = "loop_check"
    /\ UNCHANGED <<fault, sync_ret, s_dma_buffer, displayVars, g_media, hist>>

\* audio_frame = AVSync_GetCurrentFrame(); if (audio_frame >= frame_count) break;
L_Check ==
    /\ ~fault /\ pc = "loop_check"
    /\ LET audio_frame == AVSync_GetCurrentFrame(sync)
       IN  /\ loc' = [loc EXCEPT !.audio_frame = audio_frame]
           /\ pc' = IF U32Gt(loc.frame_count, audio_frame) THEN "loop_decide"
                    ELSE "main_stop"
    /\ UNCHANGED <<fault, syncVars, audioVars, displayVars, g_media, ret, hist>>

\* decision = AVSync_GetFrameDecision(&g_avsync); a division by
\* samples_per_frame = 0 yields 0 here ...
L_Decide ==
    /\ ~fault /\ pc = "loop_decide"
    /\ IF sync.state # "RUNNING"
       THEN /\ loc' = [loc EXCEPT !.decision = "NOT_STARTED"]
            /\ UNCHANGED sync
       ELSE LET audio_frame ==
                    IF sync.samples_per_frame = 0 THEN 0
                    ELSE sync.audio_samples_played \div sync.samples_per_frame
                drift == AVSync_Drift(sync, audio_frame)
            IN  /\ sync' = [sync EXCEPT
                              !.stats = AVSync_DriftStats(sync.stats, drift)]
                /\ loc' = [loc EXCEPT !.decision = AVSync_Decide(sync, drift)]
    /\ hist' = [hist EXCEPT !.vfr_at_decision = sync.video_frames_rendered,
                            !.drew = FALSE]
    /\ pc' = "loop_case"
    /\ UNCHANGED <<fault, sync_ret, audioVars, displayVars, g_media, ret>>

\* ... or traps
L_Decide_Trap ==
    /\ ~fault /\ pc = "loop_decide"
    /\ sync.state = "RUNNING"
    /\ sync.samples_per_frame = 0
    /\ fault' = TRUE
    /\ UNCHANGED <<syncVars, audioVars, displayVars, fgVars, hist>>

\* switch (decision): the RENDER case up to the call of RenderVideoFrame, the
\* SKIP and REPEAT cases whole
L_Case ==
    /\ ~fault /\ pc = "loop_case"
    /\ IF loc.decision = "RENDER_FRAME"
       THEN LET current_frame == AVSync_GetCurrentFrame(sync)
                draw == /\ current_frame # loc.last_frame
                        /\ U32Gt(loc.frame_count, current_frame)
            IN  /\ loc' = [loc EXCEPT !.current_frame = current_frame,
                                      !.frame_number =
                                          IF draw THEN current_frame ELSE @]
                /\ hist' = [hist EXCEPT
                              !.drew = draw,
                              !.frames_read = IF draw THEN Append(@, current_frame)
                                              ELSE @]
                /\ pc' = IF draw THEN "rvf_get" ELSE "loop_update"
                /\ ret' = IF draw THEN "loop_rendered" ELSE ret
                /\ UNCHANGED sync
       ELSE IF loc.decision = "SKIP_FRAME"
       THEN /\ sync' = AVSync_FrameSkipped(sync)
            /\ pc' = "loop_update"
            /\ UNCHANGED <<loc, ret, hist>>
       ELSE IF loc.decision = "REPEAT_FRAME"
       THEN /\ loc' = [loc EXCEPT !.g_frames_repeated = @ + 1]
            /\ pc' = "loop_update"
            /\ UNCHANGED <<sync, ret, hist>>
       ELSE /\ pc' = "loop_update"
            /\ UNCHANGED <<sync, loc, ret, hist>>
    /\ UNCHANGED <<fault, sync_ret, audioVars, displayVars, g_media>>

\* mutant: the frame is reported to the synchronizer twice
L_Rendered_ReportedTwice ==
    /\ ~fault /\ pc = "loop_rendered"
    /\ sync' = AVSync_FrameRendered(AVSync_FrameRendered(sync))
    /\ loc' = [loc EXCEPT !.g_frames_rendered = @ + 1,
                          !.last_frame = loc.current_frame]
    /\ pc' = "loop_update"
    /\ UNCHANGED <<fault, sync_ret, audioVars, displayVars, g_media, ret, hist>>

\* mutant: last_frame is not updated
L_Rendered_LastNotKept ==
    /\ ~fault /\ pc = "loop_rendered"
    /\ sync' = AVSync_FrameRendered(sync)
    /\ loc' = [loc EXCEPT !.g_frames_rendered = @ + 1]
    /\ pc' = "loop_update"
    /\ UNCHANGED <<fault, sync_ret, audioVars, displayVars, g_media, ret, hist>>

\* mutant: the frame is drawn but not reported to the synchronizer
L_Rendered_NotReported ==
    /\ ~fault /\ pc = "loop_rendered"
    /\ loc' = [loc EXCEPT !.g_frames_rendered = @ + 1,
                          !.last_frame = loc.current_frame]
    /\ pc' = "loop_update"
    /\ UNCHANGED <<fault, syncVars, audioVars, displayVars, g_media, ret, hist>>

\* after RenderVideoFrame: AVSync_FrameRendered, g_frames_rendered++,
\* last_frame = current_frame
L_Rendered ==
    /\ ~fault /\ pc = "loop_rendered"
    /\ sync' = AVSync_FrameRendered(sync)
    /\ loc' = [loc EXCEPT !.g_frames_rendered = @ + 1,
                          !.last_frame = loc.current_frame]
    /\ pc' = "loop_update"
    /\ UNCHANGED <<fault, sync_ret, audioVars, displayVars, g_media, ret, hist>>

\* UpdateDisplay();
L_Update ==
    /\ ~fault /\ pc = "loop_update"
    /\ pc' = "ud_busy"
    /\ ret' = "loop_refill"
    /\ UNCHANGED <<fault, syncVars, audioVars, displayVars, g_media, loc, hist>>

\* RefillAudioBuffers(); at the end of the loop body
L_Refill ==
    /\ ~fault /\ pc = "loop_refill"
    /\ pc' = "raf_needs"
    /\ ret' = "loop_top"
    /\ UNCHANGED <<fault, syncVars, audioVars, displayVars, g_media, loc, hist>>

\* the LED heartbeat, and RefillAudioBuffers(); at the top of the loop
L_Top ==
    /\ ~fault /\ pc = "loop_top"
    /\ pc' = "raf_needs"
    /\ ret' = "loop_check"
    /\ UNCHANGED <<fault, syncVars, audioVars, displayVars, g_media, loc, hist>>

\* audio_Stop, AVSync_Stop, Media_Close
M_Stop ==
    /\ ~fault /\ pc = "main_stop"
    /\ audio' = audio_Stop(audio)
    /\ dac_dma' = [dac_dma EXCEPT !.running = FALSE]
    /\ sync' = AVSync_Stop(sync)
    /\ g_media' = [g_media EXCEPT !.is_open = FALSE, !.current_sample = 0]
    /\ pc' = "main_wait"
    /\ UNCHANGED <<fault, sync_ret, s_dma_buffer, displayVars, ret, loc, hist>>

\* while (SSD1306_IsDMABusy(&g_display)) HAL_Delay(1); then the statistics page
M_WaitDMA ==
    /\ ~fault /\ pc = "main_wait"
    /\ ~g_display.dma_busy
    /\ pc' = "done"
    /\ UNCHANGED <<fault, syncVars, audioVars, displayVars, g_media, ret, loc, hist>>

Next ==
    \/ M_Init
    \/ M_Prefill1
    \/ M_Prefill2
    \/ M_Start
    \/ L_Check
    \/ L_Decide
    \/ L_Decide_Trap
    \/ L_Case
    \/ L_Rendered
    \/ L_Update
    \/ L_Refill
    \/ L_Top
    \/ M_Stop
    \/ M_WaitDMA
    \/ RVF_GetRenderBuffer
    \/ RVF_WriteBegin
    \/ RVF_WriteEnd
    \/ RVF_SwapBuffers
    \/ UD_IsDMABusy
    \/ UD_HasFrame
    \/ USD_Entry
    \/ DST_CheckBusy
    \/ DST_CheckHasFrame
    \/ DST_Swap
    \/ USD_SetAddressWindow
    \/ USD_StartDMA
    \/ ISR_I2C_Complete
    \/ ISR_I2C_Error
    \/ RAF_NeedsRefill
    \/ RAF_GetFillHalf
    \/ RAF_ReadAudio
    \/ RAF_WriteHalf
    \/ RAF_BufferFilled
    \/ ISR_DAC_HalfComplete
    \/ ISR_DAC_Complete

Spec == Init /\ [][Next]_vars

\* the steps of main() and of the functions it calls
Foreground ==
    \/ M_Init \/ M_Prefill1 \/ M_Prefill2 \/ M_Start
    \/ L_Check \/ L_Decide \/ L_Decide_Trap \/ L_Case \/ L_Rendered
    \/ L_Update \/ L_Refill \/ L_Top
    \/ M_Stop \/ M_WaitDMA
    \/ RVF_GetRenderBuffer \/ RVF_WriteBegin \/ RVF_WriteEnd \/ RVF_SwapBuffers
    \/ UD_IsDMABusy \/ UD_HasFrame \/ USD_Entry
    \/ DST_CheckBusy \/ DST_CheckHasFrame \/ DST_Swap
    \/ USD_SetAddressWindow \/ USD_StartDMA
    \/ RAF_NeedsRefill \/ RAF_GetFillHalf \/ RAF_ReadAudio \/ RAF_WriteHalf
    \/ RAF_BufferFilled

\* SpecLive: Spec where the processor keeps executing main(), the circular DAC
\* DMA keeps raising its half and full interrupts while it runs, and an I2C
\* transfer that was started ends
SpecLive ==
    /\ Init /\ [][Next]_vars
    /\ WF_vars(Foreground)
    /\ WF_vars(ISR_DAC_HalfComplete)
    /\ WF_vars(ISR_DAC_Complete)
    /\ WF_vars(ISR_I2C_Complete \/ ISR_I2C_Error)

-----------------------------------------------------------------------------
(* SpecPlay: the audio path of main() from AVSync_Init (line 298) on: the two  *)
(* prefill reads, audio_Start, and the playback loop's RefillAudioBuffers      *)
(* calls against the DAC DMA interrupts, on audio streams of no, one and a     *)
(* half, two and three half-buffers of samples.  The play log is kept.  What   *)
(* main() does between two RefillAudioBuffers calls (RenderVideoFrame, the     *)
(* synchronizer's decision, UpdateDisplay) touches neither the media handle's  *)
(* current_sample nor the audio driver and is one step here.                   *)

\* audio_size of the header, in bytes
PlaySizes ==
    {0, 4 * 3000, 4 * 2 * AUDIO_HALF_BUFFER_SAMPLES,
     4 * 3 * AUDIO_HALF_BUFFER_SAMPLES}

\* after Media_Open has succeeded
InitPlay ==
    /\ sync_ret = [call |-> "none", decision |-> "NOT_STARTED"]
    /\ fault = FALSE
    /\ g_display_buffers = TripleBuffer0
    /\ g_framebuffer = Framebuffer0
    /\ i2c_dma = I2cDma0
    /\ loc = Loc0
    /\ hist = [Hist0 EXCEPT !.play_log.on = TRUE]
    /\ sync = AVSyncZero
    /\ audio = AudioZero
    /\ dac_dma = DacDma0
    /\ s_dma_buffer = DmaBuffer0
    /\ \E audio_size \in PlaySizes :
        g_media = [MediaZero EXCEPT !.is_open = TRUE,
                                    !.frame_count = 3,
                                    !.audio_size = audio_size,
                                    !.sample_rate = VIDEO_FPS * 1024]
    /\ g_display = [dma_busy |-> FALSE, last_error |-> "OK", initialized |-> TRUE]
    /\ pc = "main_init"
    /\ ret = "main_init"

\* the second prefill; RenderVideoFrame(0) is passed over
PL_Prefill2 ==
    /\ M_Prefill("main_prefill2", "SECOND", "main_start")
    /\ UNCHANGED <<ret, loc>>

\* the playback loop between the return of a RefillAudioBuffers call and the
\* next call (main.c:337, 375)
PL_Loop ==
    /\ ~fault /\ pc = "loop_check"
    /\ pc' = "raf_needs"
    /\ UNCHANGED <<fault, syncVars, audioVars, displayVars, g_media, ret, loc,
                   hist>>

NextPlay ==
    \/ M_Init
    \/ M_Prefill1
    \/ PL_Prefill2
    \/ M_Start
    \/ PL_Loop
    \/ RAF_NeedsRefill
    \/ RAF_GetFillHalf
    \/ RAF_ReadAudio
    \/ RAF_WriteHalf
    \/ RAF_BufferFilled
    \/ ISR_DAC_HalfComplete
    \/ ISR_DAC_Complete

SpecPlay == InitPlay /\ [][NextPlay]_vars

-----------------------------------------------------------------------------
(* SpecMedia: the FAT32 layer and the media reader under any order of calls,  *)
(* on a mounted volume, with block reads that may fail.  The functions touch   *)
(* nothing an interrupt handler touches, so a call is one step.                *)

\* a call's block reads 1 .. MaxFailAt are the ones that may fail
MaxFailAt == 2
\* stereo samples in the audio stream of the file on the card
MediaAudioSamples == 2100
\* frames of the file on the card
MediaFrameCount == 2

MediaFileSize ==
    MEDIA_HEADER_SIZE + MediaFrameCount * MEDIA_FRAME_SIZE + 4 * MediaAudioSamples

\* the root directory occupies clusters 2 and 3, the file starts at cluster 5
MediaRootCluster == 2
MediaFirstCluster == 5
MediaDataStartSector == 64

\* the 32 bytes of a directory entry: the name in bytes 0-10, the attributes
\* in byte 11, the first cluster's high half in bytes 20-21 and low half in
\* bytes 26-27, the size in bytes 28-31, little-endian
DirEntryBytes(name, attr, first_cluster, size) ==
    [k \in 1..32 |->
        IF k <= 11 THEN name[k]
        ELSE IF k = 12 THEN attr
        ELSE IF k = 21 THEN (first_cluster \div 65536) % 256
        ELSE IF k = 22 THEN (first_cluster \div 16777216) % 256
        ELSE IF k = 27 THEN first_cluster % 256
        ELSE IF k = 28 THEN (first_cluster \div 256) % 256
        ELSE IF k = 29 THEN size % 256
        ELSE IF k = 30 THEN (size \div 256) % 256
        ELSE IF k = 31 THEN (size \div 65536) % 256
        ELSE IF k = 32 THEN (size \div 16777216) % 256
        ELSE 0]

\* "README  TXT"
OtherName == <<82, 69, 65, 68, 77, 69, 32, 32, 84, 88, 84>>

\* an entry of each kind: "end" has first byte 0x00, "deleted" 0xE5, "lfn" the
\* long-name attribute, "target" the name asked for, "other" another name
DirEntry(kind) ==
    IF kind = "end" THEN [k \in 1..32 |-> 0]
    ELSE IF kind = "deleted"
    THEN DirEntryBytes([FatName EXCEPT ![1] = 229], 32, MediaFirstCluster + 1, 512)
    ELSE IF kind = "lfn"
    THEN DirEntryBytes([OtherName EXCEPT ![1] = 65], FAT_ATTR_LONG_NAME, 0, 0)
    ELSE IF kind = "target"
    THEN DirEntryBytes(FatName, 32, MediaFirstCluster, MediaFileSize)
    ELSE DirEntryBytes(OtherName, 32, MediaFirstCluster - 1, 100)

\* a directory sector without a free entry, and the one that ends the directory
DirSectorFull ==
    [e \in 1..16 |-> DirEntry(IF e % 4 = 1 THEN "lfn"
                              ELSE IF e % 4 = 3 THEN "deleted" ELSE "other")]
DirSectorLast(has_file) ==
    [e \in 1..16 |-> DirEntry(IF e = 1 THEN "lfn"
                              ELSE IF e = 2 /\ has_file THEN "target"
                              ELSE IF e = 2 THEN "other" ELSE "end")]

\* the file's cluster chain: clusters clusters from MediaFirstCluster on, the
\* ones after position gap two clusters further (gap = 0: no gap)
MediaChain(clusters, gap) ==
    [i \in 1..clusters |->
        MediaFirstCluster + (i - 1) + (IF gap > 0 /\ i > gap THEN 2 ELSE 0)]

\* a mounted volume with the file in the root directory (or not: has_file)
MediaVolume(spc, extra, gap, has_file) ==
    LET cluster_size == spc * SD_BLOCK_SIZE
        clusters == (MediaFileSize + cluster_size - 1) \div cluster_size + extra
        chain == MediaChain(clusters, gap)
        last == chain[clusters]
        Index(c) == CHOOSE i \in 1..clusters : chain[i] = c
    IN  [mounted |-> TRUE, sectors_per_cluster |-> spc,
         data_start_sector |-> MediaDataStartSector,
         root_cluster |-> MediaRootCluster,
         fat |-> [c \in 2..last |->
                    IF c = MediaRootCluster THEN MediaRootCluster + 1
                    ELSE IF c = MediaRootCluster + 1 THEN FAT_ENTRY_MASK
                    ELSE IF ~has_file THEN 0
                    ELSE IF c = last THEN FAT_ENTRY_MASK
                    ELSE IF \E i \in 1..clusters : chain[i] = c
                    THEN chain[Index(c) + 1]
                    ELSE 0],
         dir |-> [c \in {MediaRootCluster, MediaRootCluster + 1} |->
                    [s \in 1..spc |->
                        IF c = MediaRootCluster THEN DirSectorFull
                        ELSE IF s = 1 THEN DirSectorLast(has_file)
                        ELSE [e \in 1..16 |-> DirEntry("end")]]],
         hsd |-> [header_sector |->
                      MediaDataStartSector + (MediaFirstCluster - 2) * spc,
                  frame_count |-> MediaFrameCount,
                  audio_size |-> 4 * MediaAudioSamples,
                  sample_rate |-> VIDEO_FPS * 1024,
                  chain |-> IF has_file THEN chain ELSE <<>>]]

\* the cards: clusters of 1 or 4 sectors; the file in one run, or with a gap
\* after its third cluster, or followed by 12 clusters it does not use, the
\* last of them after a gap; or no file
MediaVolumes ==
    {MediaVolume(spc, 0, gap, TRUE) : spc \in {1, 4}, gap \in {0, 3}}
    \cup {MediaVolume(4, 12, 17, TRUE), MediaVolume(1, 0, 0, FALSE)}

\* after SD_Init() and a successful FAT_Mount()
InitMedia ==
    /\ sync_ret = [call |-> "none", decision |-> "NOT_STARTED"]
    /\ fault = FALSE
    /\ g_display_buffers = TripleBuffer0
    /\ g_framebuffer = Framebuffer0
    /\ i2c_dma = I2cDma0
    /\ hist = Hist0
    /\ sync = AVSyncZero
    /\ audio = AudioZero
    /\ dac_dma = DacDma0
    /\ s_dma_buffer = DmaBuffer0
    /\ g_media = MediaZero
    /\ g_display = [dma_busy |-> FALSE, last_error |-> "OK", initialized |-> FALSE]
    /\ pc = "idle"
    /\ ret = "idle"
    /\ \E vol \in MediaVolumes : loc = [Loc0 EXCEPT !.g_volume = vol]

notMediaVars == <<syncVars, fault, audioVars, displayVars, pc, ret>>

FailAts == 0..MaxFailAt

\* hist after a call that issued the reads io
MediaHist(call, io) ==
    [hist EXCEPT !.media_call = call,
                 !.read_failed = @ \/ (io.fail_at # 0 /\ io.n >= io.fail_at)]

\* loc after a call: the volume and file_info, and what the call returned (the
\* other result fields as before any call); of io, the reads issued and the
\* number of the one that failed (0: none)
MediaLoc(status, io) ==
    [Loc0 EXCEPT !.g_volume = loc.g_volume, !.file_info = loc.file_info,
                 !.media_status = status,
                 !.io = [n |-> io.n,
                         fail_at |-> IF io.fail_at # 0 /\ io.n >= io.fail_at
                                     THEN io.fail_at ELSE 0,
                         log |-> <<>>]]

\* main.c:250  FAT_FindFile(&g_volume, "BADAPPLE.BIN", &file_info), until the
\* file is found
Call_FAT_FindFile ==
    /\ ~fault /\ pc = "idle"
    /\ loc.file_info.first_cluster = 0
    /\ \E fail_at \in FailAts :
        LET r == FAT_FindFile(loc.g_volume, loc.file_info, Io0(fail_at))
        IN  /\ loc' = [MediaLoc(r.status, r.io) EXCEPT !.file_info = r.info]
            /\ hist' = MediaHist("FAT_FindFile", r.io)
    /\ UNCHANGED <<g_media, notMediaVars>>

\* main.c:258  Media_Open(&g_media, &g_volume, &file_info), once a file was found
Call_Media_Open ==
    /\ ~fault /\ pc = "idle"
    /\ loc.file_info.first_cluster # 0
    /\ ~g_media.is_open
    /\ \E fail_at \in FailAts :
        LET r == Media_Open(g_media, loc.g_volume, loc.file_info, Io0(fail_at))
        IN  /\ g_media' = r.m
            /\ loc' = MediaLoc(r.status, r.io)
            /\ hist' = [MediaHist("Media_Open", r.io) EXCEPT !.delivered = <<>>]
    /\ UNCHANGED notMediaVars

\* main.c:389  Media_Close(&g_media)
Call_Media_Close ==
    /\ ~fault /\ pc = "idle"
    /\ g_media.is_open
    /\ g_media' = Media_Close(g_media)
    /\ loc' = MediaLoc("none", Io0(0))
    /\ hist' = MediaHist("Media_Close", Io0(0))
    /\ UNCHANGED notMediaVars

\* Media_ReadFrameAt(&g_media, frame_number, buf) with the first or the last
\* frame of the file or the first number past its end, into a buffer of the
\* caller's; a call that never returns takes no step
Call_Media_ReadFrameAt ==
    /\ ~fault /\ pc = "idle"
    /\ \E frame_number \in {0, MediaFrameCount - 1, MediaFrameCount},
          fail_at \in FailAts :
        LET r == Media_ReadFrameAt(g_media, frame_number, Loc0.frame_buf,
                                   Io0(fail_at))
        IN  /\ r.status # "HANG"
            /\ g_media' = r.m
            /\ loc' = [MediaLoc(r.status, r.io) EXCEPT
                           !.frame_number = frame_number, !.frame_buf = r.buf]
            /\ hist' = MediaHist("Media_ReadFrameAt", r.io)
    /\ UNCHANGED notMediaVars

\* the chunk sizes of Media_ReadAudioStereo's callers
MediaCounts == {MediaAudioSamples \div 3, MAX_AUDIO_READ_SAMPLES, 3000}

\* Media_ReadAudioStereo(&g_media, left, right, count) into buffers of the
\* caller's
Call_Media_ReadAudioStereo ==
    /\ ~fault /\ pc = "idle"
    /\ \E count \in MediaCounts, fail_at \in FailAts :
        LET r == Media_ReadAudioStereo(g_media, count, Loc0.audio_out,
                                       Io0(fail_at))
        IN  /\ r.status # "HANG"
            /\ g_media' = r.m
            /\ loc' = [MediaLoc(r.status, r.io) EXCEPT
                           !.to_read = count, !.audio_out = r.out]
            /\ hist' = [MediaHist("Media_ReadAudioStereo", r.io) EXCEPT
                            !.delivered = IF r.status = "FAT_OK"
                                          THEN Concat(@, r.out.data) ELSE @]
    /\ UNCHANGED notMediaVars

NextMedia ==
    \/ Call_FAT_FindFile
    \/ Call_Media_Open
    \/ Call_Media_Close
    \/ Call_Media_ReadFrameAt
    \/ Call_Media_ReadAudioStereo

SpecMedia == InitMedia /\ [][NextMedia]_vars

-----------------------------------------------------------------------------
(* SpecFind: FAT_FindFile (buffers.c:161-223) on root directories of two       *)
(* clusters, 2 and 4, with an entry of any kind at the end of the first, at    *)
(* the start of the second and at its end; cluster 3 lies between them on the  *)
(* card, belongs to another chain and holds entries with the name asked for    *)

FindKinds ==
    {"end", "deleted", "lfn_named", "lfn_archive", "other", "near", "first",
     "second"}

\* first clusters and sizes of the entries that carry the name: 0x00010005,
\* 0x00020300, 0x01020304
FindFirstCluster == 1 * 65536 + 5
FindSecondCluster == 2 * 65536 + 3 * 256
FindFirstSize == 1 * 16777216 + 2 * 65536 + 3 * 256 + 4

\* the entries tried: the kinds of DirEntry; a long-name entry whose first 11
\* bytes are the name, with attribute 0x0F and with 0x2F; a name that differs
\* in its last byte; and two entries with the name, the second one read-only,
\* hidden and system (0x07)
FindEntry(kind) ==
    IF kind = "lfn_named"
    THEN DirEntryBytes(FatName, FAT_ATTR_LONG_NAME, FindFirstCluster + 1, 7)
    ELSE IF kind = "lfn_archive"
    THEN DirEntryBytes(FatName, FAT_ATTR_LONG_NAME + 32, FindFirstCluster + 2, 8)
    ELSE IF kind = "near"
    THEN DirEntryBytes([FatName EXCEPT ![FAT_MAX_FILENAME] = 77], 32,
                       FindFirstCluster + 3, 9)
    ELSE IF kind = "first"
    THEN DirEntryBytes(FatName, 32, FindFirstCluster, FindFirstSize)
    ELSE IF kind = "second"
    THEN DirEntryBytes(FatName, 7, FindSecondCluster, 70000)
    ELSE DirEntry(kind)

\* the volume: spc sectors per cluster, the root directory in clusters 2 -> 4,
\* kinds[1] its entry 15 of the last sector of cluster 2, kinds[2] entry 0 of
\* the first sector of cluster 4, kinds[3] entry 15 of the last sector of
\* cluster 4; deleted, long-name and other entries elsewhere
FindVolume(spc, kinds) ==
    [MediaVolume(spc, 0, 0, TRUE) EXCEPT
        !.fat = [c \in 2..4 |-> IF c = 2 THEN 4 ELSE FAT_ENTRY_MASK],
        !.dir = [c \in 2..4 |->
                    [s \in 1..spc |->
                        [e \in 1..16 |->
                            IF c = 3 THEN DirEntry("target")
                            ELSE IF c = 2 /\ s = spc /\ e = 16
                            THEN FindEntry(kinds[1])
                            ELSE IF c = 4 /\ s = 1 /\ e = 1
                            THEN FindEntry(kinds[2])
                            ELSE IF c = 4 /\ s = spc /\ e = 16
                            THEN FindEntry(kinds[3])
                            ELSE DirEntry(IF e % 4 = 1 THEN "lfn"
                                          ELSE IF e % 4 = 3 THEN "deleted"
                                          ELSE "other")]]]]

FindVolumes ==
    {FindVolume(spc, kinds) :
        spc \in {1, 2}, kinds \in [1..3 -> FindKinds]}

\* after SD_Init() and a successful FAT_Mount()
InitFind ==
    /\ sync_ret = [call |-> "none", decision |-> "NOT_STARTED"]
    /\ fault = FALSE
    /\ g_display_buffers = TripleBuffer0
    /\ g_framebuffer = Framebuffer0
    /\ i2c_dma = I2cDma0
    /\ hist = Hist0
    /\ sync = AVSyncZero
    /\ audio = AudioZero
    /\ dac_dma = DacDma0
    /\ s_dma_buffer = DmaBuffer0
    /\ g_media = MediaZero
    /\ g_display = [dma_busy |-> FALSE, last_error |-> "OK", initialized |-> FALSE]
    /\ pc = "idle"
    /\ ret = "idle"
    /\ \E vol \in FindVolumes : loc = [Loc0 EXCEPT !.g_volume = vol]

\* main.c:250, while the file has not been found
NextFind == Call_FAT_FindFile

SpecFind == InitFind /\ [][NextFind]_vars

-----------------------------------------------------------------------------
(* SpecCache: Media_GetClusterAt (media_file_reader.c:43-71) called at any     *)
(* sequence of byte offsets on the path Media_ReadAt takes for a file that is  *)
(* not flagged contiguous, between Media_Open and Media_Close, with FAT reads  *)
(* that may fail                                                               *)

\* the clusters a file of MediaFileSize bytes needs
CacheClusters(vol) ==
    (MediaFileSize + FAT_GetClusterSize(vol) - 1) \div FAT_GetClusterSize(vol)

\* the chain indexes looked up: the first six, the last of the file, and two
\* past the end of its chain
CacheIndexes(vol) ==
    (0..5) \cup {CacheClusters(vol) - 1, CacheClusters(vol), CacheClusters(vol) + 4}

\* after FAT_FindFile has found the file
InitCache ==
    /\ sync_ret = [call |-> "none", decision |-> "NOT_STARTED"]
    /\ fault = FALSE
    /\ g_display_buffers = TripleBuffer0
    /\ g_framebuffer = Framebuffer0
    /\ i2c_dma = I2cDma0
    /\ hist = Hist0
    /\ sync = AVSyncZero
    /\ audio = AudioZero
    /\ dac_dma = DacDma0
    /\ s_dma_buffer = DmaBuffer0
    /\ g_media = MediaZero
    /\ g_display = [dma_busy |-> FALSE, last_error |-> "OK", initialized |-> FALSE]
    /\ pc = "idle"
    /\ ret = "idle"
    /\ \E vol \in {v \in MediaVolumes : v.hsd.chain # <<>>} :
        loc = [Loc0 EXCEPT
                  !.g_volume = vol,
                  !.file_info = FAT_FindFile(vol, Loc0.file_info, Io0(0)).info]

\* Media_ReadAtFragmented's cluster = Media_GetClusterAt(media, offset), at the
\* first or the last byte of a cluster
Call_Media_GetClusterAt ==
    /\ ~fault /\ pc = "idle"
    /\ g_media.is_open
    /\ ~(g_media.is_contiguous /\ g_media.first_sector # 0)
    /\ \E index \in CacheIndexes(g_media.vol),
          within \in {0, FAT_GetClusterSize(g_media.vol) - 1},
          fail_at \in FailAts :
        LET byte_offset == index * FAT_GetClusterSize(g_media.vol) + within
            r == Media_GetClusterAt(g_media, byte_offset, Io0(fail_at))
        IN  /\ g_media' = r.m
            /\ loc' = [MediaLoc("none", r.io) EXCEPT
                           !.cluster = r.cluster, !.ra_offset = byte_offset]
            /\ hist' = MediaHist("Media_GetClusterAt", r.io)
    /\ UNCHANGED notMediaVars

NextCache ==
    \/ Call_Media_Open
    \/ Call_Media_Close
    \/ Call_Media_GetClusterAt

SpecCache == InitCache /\ [][NextCache]_vars

-----------------------------------------------------------------------------
(* SpecReadAt: Media_ReadAt (media_file_reader.c:164-173) and the loops of its *)
(* two paths, one pass of a loop per step, for any offset and length on files  *)
(* of several sizes, in one run of clusters or with a gap                      *)

\* passes of a read loop that the model follows
MaxReadIterations == 48

\* the FAT of a volume whose root directory is clusters 2 and 3 and that holds
\* one file with the cluster chain chain
ChainFat(chain) ==
    LET last == chain[Len(chain)]
        Index(c) == CHOOSE i \in 1..Len(chain) : chain[i] = c
    IN  [c \in 2..last |->
            IF c = MediaRootCluster THEN MediaRootCluster + 1
            ELSE IF c = MediaRootCluster + 1 THEN FAT_ENTRY_MASK
            ELSE IF c = last THEN FAT_ENTRY_MASK
            ELSE IF \E i \in 1..Len(chain) : chain[i] = c
            THEN chain[Index(c) + 1]
            ELSE 0]

\* a mounted volume holding a file of file_size bytes, with a gap in its chain
\* after the cluster number gap (0: none)
ReadAtVolume(spc, file_size, gap) ==
    LET cluster_size == spc * SD_BLOCK_SIZE
        clusters == (file_size + cluster_size - 1) \div cluster_size
        chain == MediaChain(clusters, IF gap < clusters THEN gap ELSE 0)
    IN  [VolumeZero EXCEPT
            !.mounted = TRUE, !.sectors_per_cluster = spc,
            !.data_start_sector = MediaDataStartSector,
            !.root_cluster = MediaRootCluster,
            !.fat = ChainFat(chain),
            !.hsd = [header_sector |->
                         MediaDataStartSector + (MediaFirstCluster - 2) * spc,
                     frame_count |-> MediaFrameCount,
                     audio_size |-> 4 * MediaAudioSamples,
                     sample_rate |-> VIDEO_FPS * 1024,
                     chain |-> chain]]

\* the sizes in the directory entry: a byte more than a sector, a few sectors,
\* 42 sectors, and 42 sectors and a part of one
ReadAtFileSizes ==
    {SD_BLOCK_SIZE + 1, 1700, 42 * SD_BLOCK_SIZE, 42 * SD_BLOCK_SIZE + 100}

ReadAtOffsets(file_size) ==
    {0, MEDIA_HEADER_SIZE, SD_BLOCK_SIZE, 2 * SD_BLOCK_SIZE, 3 * SD_BLOCK_SIZE,
     file_size - 1, file_size, file_size + SD_BLOCK_SIZE}

ReadAtSizes ==
    {0, 1, SD_BLOCK_SIZE, SD_BLOCK_SIZE + 20, MEDIA_FRAME_SIZE,
     (MAX_MULTIBLOCK_COUNT + 1) * SD_BLOCK_SIZE, 40 * SD_BLOCK_SIZE}

\* after a Media_Open without read failures of a file of any of the sizes, at
\* the entry of Media_ReadAt(media, offset, buffer, size)
InitReadAt ==
    /\ sync_ret = [call |-> "none", decision |-> "NOT_STARTED"]
    /\ fault = FALSE
    /\ g_display_buffers = TripleBuffer0
    /\ g_framebuffer = Framebuffer0
    /\ i2c_dma = I2cDma0
    /\ hist = Hist0
    /\ sync = AVSyncZero
    /\ audio = AudioZero
    /\ dac_dma = DacDma0
    /\ s_dma_buffer = DmaBuffer0
    /\ g_display = [dma_busy |-> FALSE, last_error |-> "OK", initialized |-> FALSE]
    /\ \E spc \in {1, 4}, file_size \in ReadAtFileSizes, gap \in {0, 1} :
        LET vol == ReadAtVolume(spc, file_size, gap)
            info == [first_cluster |-> MediaFirstCluster, size |-> file_size]
        IN  /\ g_media = Media_Open(MediaZero, vol, info, Io0(0)).m
            /\ \E offset \in ReadAtOffsets(file_size), size \in ReadAtSizes,
                  fail_at \in FailAts :
                loc = [Loc0 EXCEPT !.g_volume = vol, !.file_info = info,
                                   !.ra_offset0 = offset, !.ra_size0 = size,
                                   !.ra_offset = offset, !.ra_size = size,
                                   !.io = Io0(fail_at)]
    /\ pc = "ra_entry"
    /\ ret = "idle"

notReadAtVars == <<syncVars, fault, audioVars, displayVars, ret, hist>>

\* Media_ReadAt: the choice of the path
RA_Entry ==
    /\ ~fault /\ pc = "ra_entry"
    /\ IF ~g_media.is_open
       THEN /\ pc' = "ra_return"
            /\ loc' = [loc EXCEPT !.media_status = "FAT_ERROR_INVALID_PARAM"]
       ELSE /\ pc' = IF g_media.is_contiguous /\ g_media.first_sector # 0
                     THEN "ra_contiguous" ELSE "ra_fragmented"
            /\ UNCHANGED loc
    /\ UNCHANGED <<g_media, notReadAtVars>>

\* loc and pc after a pass i of a read loop
RA_After(i) ==
    /\ loc' = [loc EXCEPT !.ra_offset = i.offset, !.ra_size = i.size,
                          !.ra_buf = i.buf, !.io = i.io,
                          !.ra_iter = @ + 1,
                          !.media_status = IF i.status = "again" THEN @
                                           ELSE i.status]
    /\ pc' = IF i.status = "again" THEN pc ELSE "ra_return"
    /\ g_media' = i.m

\* one pass of the loop of Media_ReadAtContiguous
RA_Contiguous_Iteration ==
    /\ ~fault /\ pc = "ra_contiguous"
    /\ loc.ra_iter < MaxReadIterations
    /\ RA_After(Media_ReadAtContiguous_Iteration(g_media, loc.ra_offset,
                     loc.ra_size, loc.ra_buf, loc.io))
    /\ UNCHANGED notReadAtVars

\* one pass of the loop of Media_ReadAtFragmented
RA_Fragmented_Iteration ==
    /\ ~fault /\ pc = "ra_fragmented"
    /\ loc.ra_iter < MaxReadIterations
    /\ RA_After(Media_ReadAtFragmented_Iteration(g_media, loc.ra_offset,
                     loc.ra_size, loc.ra_buf, loc.io))
    /\ UNCHANGED notReadAtVars

NextReadAt ==
    \/ RA_Entry
    \/ RA_Contiguous_Iteration
    \/ RA_Fragmented_Iteration

SpecReadAt == InitReadAt /\ [][NextReadAt]_vars

-----------------------------------------------------------------------------
(* SpecWalk: Media_CheckContiguous (media_file_reader.c:178-214), one pass of  *)
(* its loop per step, on file allocation tables of any content: chains that   *)
(* end, that run into a free entry, that loop, that have a gap, that are      *)
(* longer than the file needs                                                 *)

\* the longest run of consecutive clusters in a table
MaxWalkRun == 17
\* passes of the walk that the model follows
MaxWalkPasses == 24

\* a table in which the file's clusters 5 .. 5 + run - 1 are linked in order and
\* the entry of the last of them is tail
RunFat(run, tail) ==
    LET last == MediaFirstCluster + run - 1
    IN  [c \in 2..(last + 3) |->
            IF c = MediaRootCluster THEN MediaRootCluster + 1
            ELSE IF c = MediaRootCluster + 1 THEN FAT_ENTRY_MASK
            ELSE IF c < MediaFirstCluster THEN 0
            ELSE IF c < last THEN c + 1
            ELSE IF c = last THEN tail
            ELSE FAT_ENTRY_MASK]

\* the entries a cluster of the file may hold in a table of any content
AnyEntries ==
    {0, 1, FAT_ENTRY_MASK, FAT_CLUSTER_END} \cup
        MediaFirstCluster..(MediaFirstCluster + 3)

WalkFats ==
    {RunFat(run, tail) :
        run \in 1..MaxWalkRun,
        tail \in {FAT_ENTRY_MASK, 0, MediaFirstCluster}} \cup
    {RunFat(run, MediaFirstCluster + run - 1 + d) :
        run \in 1..MaxWalkRun, d \in {0, 2}} \cup
    {[c \in 2..(MediaFirstCluster + 2) |->
         IF c < MediaFirstCluster THEN RunFat(1, 0)[c]
         ELSE e[c - MediaFirstCluster + 1]] :
        e \in [1..3 -> AnyEntries]}

WalkFileSizes == {0, SD_BLOCK_SIZE + 1, 1700, 4 * SD_BLOCK_SIZE}

\* in Media_Open, the handle marked open, at the call of Media_CheckContiguous
InitWalk ==
    /\ sync_ret = [call |-> "none", decision |-> "NOT_STARTED"]
    /\ fault = FALSE
    /\ g_display_buffers = TripleBuffer0
    /\ g_framebuffer = Framebuffer0
    /\ i2c_dma = I2cDma0
    /\ hist = Hist0
    /\ sync = AVSyncZero
    /\ audio = AudioZero
    /\ dac_dma = DacDma0
    /\ s_dma_buffer = DmaBuffer0
    /\ g_display = [dma_busy |-> FALSE, last_error |-> "OK", initialized |-> FALSE]
    /\ \E spc \in {1, 4}, file_size \in WalkFileSizes, fat \in WalkFats,
          fail_at \in FailAts :
        LET vol == [VolumeZero EXCEPT
                       !.mounted = TRUE, !.sectors_per_cluster = spc,
                       !.data_start_sector = MediaDataStartSector,
                       !.root_cluster = MediaRootCluster,
                       !.fat = fat]
            info == [first_cluster |-> MediaFirstCluster, size |-> file_size]
        IN  /\ g_media = Media_Open_Opened(vol, info)
            /\ loc = [Loc0 EXCEPT !.g_volume = vol, !.file_info = info,
                                  !.io = Io0(fail_at)]
    /\ pc = "cc_entry"
    /\ ret = "idle"

\* Media_CheckContiguous up to its loop
CC_Entry ==
    /\ ~fault /\ pc = "cc_entry"
    /\ IF ~g_media.is_open \/ FAT_GetClusterSize(g_media.vol) = 0
       THEN /\ pc' = "cc_return"
            /\ UNCHANGED loc
       ELSE /\ pc' = "cc_loop"
            /\ loc' = [loc EXCEPT
                          !.cluster = g_media.first_cluster,
                          !.prev = g_media.first_cluster,
                          !.count = 0,
                          !.expected_clusters =
                              (g_media.file_size + FAT_GetClusterSize(g_media.vol) - 1)
                                  \div FAT_GetClusterSize(g_media.vol)]
    /\ UNCHANGED <<g_media, notReadAtVars>>

\* one pass of the loop of Media_CheckContiguous, and what follows the loop
CC_Iteration ==
    /\ ~fault /\ pc = "cc_loop"
    /\ loc.count < MaxWalkPasses
    /\ LET i == Media_CheckContiguous_Iteration(g_media.vol, loc.cluster,
                     loc.prev, loc.count, loc.expected_clusters, loc.io)
       IN  /\ loc' = [loc EXCEPT !.cluster = i.cluster, !.prev = i.prev,
                                 !.count = i.count, !.io = i.io]
           /\ IF i.status = "again"
              THEN UNCHANGED <<pc, g_media>>
              ELSE /\ pc' = "cc_return"
                   /\ g_media' = Media_CheckContiguous_Result(g_media,
                                     i.status = "contiguous")
    /\ UNCHANGED notReadAtVars

NextWalk ==
    \/ CC_Entry
    \/ CC_Iteration

SpecWalk == InitWalk /\ [][NextWalk]_vars

-----------------------------------------------------------------------------
(* SpecFilename: FAT_ConvertFilename (buffers.c:132-159), one pass of a loop   *)
(* per step, on names with and without a dot, shorter and longer than 8.3,    *)
(* and then on its own result, the 11 bytes passed back as a string.  A       *)
(* string is the sequence of its characters before the terminator; the output *)
(* array is followed by bytes of the caller that the function must not write  *)

\* the longest of the names of which all are tried
MaxNameLen == 4

\* bytes of the caller behind the 11 of the output
OutputGuard == <<"guard", "guard">>

\* toupper on the characters of the model
ToUpper(c) == IF c = "a" THEN "A" ELSE IF c = "b" THEN "B" ELSE c

\* input[i] of the null-terminated string (i counts from 0)
InputAt(input, i) == IF i < Len(input) THEN input[i + 1] ELSE "NUL"

FilenameChars == {"a", "B", ".", " "}

Filenames ==
    UNION {[1..n -> FilenameChars] : n \in 0..MaxNameLen} \cup
    {<<"b", "a", "d", "a", "p", "p", "l", "e", ".", "b", "i", "n">>,
     <<"B", "A", "D", "A", "P", "P", "L", "E", "X", ".", "B", "I", "N", "S">>,
     <<"R", "E", "A", "D", "M", "E">>,
     <<"a", ".", "t", "x", "t">>,
     <<"V", "E", "R", "Y", "L", "O", "N", "G", "N", "A", "M", "E">>}

InitFilename ==
    /\ sync_ret = [call |-> "none", decision |-> "NOT_STARTED"]
    /\ fault = FALSE
    /\ g_display_buffers = TripleBuffer0
    /\ g_framebuffer = Framebuffer0
    /\ i2c_dma = I2cDma0
    /\ hist = Hist0
    /\ sync = AVSyncZero
    /\ audio = AudioZero
    /\ dac_dma = DacDma0
    /\ s_dma_buffer = DmaBuffer0
    /\ g_media = MediaZero
    /\ g_display = [dma_busy |-> FALSE, last_error |-> "OK", initialized |-> FALSE]
    /\ \E input \in Filenames :
        loc = [Loc0 EXCEPT !.input = input,
                           !.output = [k \in 1..FAT_MAX_FILENAME |-> "unwritten"]
                                          \o OutputGuard]
    /\ pc = "cf_entry"
    /\ ret = "idle"

notFilenameVars == <<syncVars, fault, audioVars, displayVars, g_media, ret, hist>>

\* memset(output, ' ', FAT_MAX_FILENAME); i = 0; o = 0
CF_Memset ==
    /\ pc = "cf_entry"
    /\ loc' = [loc EXCEPT
                  !.output = [k \in 1..Len(loc.output) |->
                                 IF k <= FAT_MAX_FILENAME THEN " " ELSE loc.output[k]],
                  !.i = 0, !.o = 0]
    /\ pc' = "cf_name"
    /\ UNCHANGED notFilenameVars

\* while (input[i] && input[i] != '.' && o < 8) output[o++] = toupper(input[i++])
CF_Name ==
    /\ pc = "cf_name"
    /\ IF InputAt(loc.input, loc.i) \notin {"NUL", "."} /\ loc.o < 8
       THEN /\ loc' = [loc EXCEPT
                         !.output[loc.o + 1] = ToUpper(InputAt(loc.input, loc.i)),
                         !.i = @ + 1, !.o = @ + 1]
            /\ UNCHANGED pc
       ELSE /\ pc' = "cf_skip"
            /\ UNCHANGED loc
    /\ UNCHANGED notFilenameVars

\* while (input[i] && input[i] != '.') i++;  if (input[i] == '.') i++;  o = 8
CF_Skip ==
    /\ pc = "cf_skip"
    /\ IF InputAt(loc.input, loc.i) \notin {"NUL", "."}
       THEN /\ loc' = [loc EXCEPT !.i = @ + 1]
            /\ UNCHANGED pc
       ELSE /\ loc' = [loc EXCEPT
                         !.i = IF InputAt(loc.input, loc.i) = "." THEN @ + 1 ELSE @,
                         !.o = 8]
            /\ pc' = "cf_ext"
    /\ UNCHANGED notFilenameVars

\* while (input[i] && o < 11) output[o++] = toupper(input[i++]);  return
CF_Ext ==
    /\ pc = "cf_ext"
    /\ IF InputAt(loc.input, loc.i) # "NUL" /\ loc.o < 11
       THEN /\ loc' = [loc EXCEPT
                         !.output[loc.o + 1] = ToUpper(InputAt(loc.input, loc.i)),
                         !.i = @ + 1, !.o = @ + 1]
            /\ UNCHANGED pc
       ELSE /\ loc' = [loc EXCEPT !.conversions = @ + 1]
            /\ pc' = "cf_return"
    /\ UNCHANGED notFilenameVars

\* the caller converts the result: the 11 bytes, terminated, are the input of
\* a second call with a fresh output array
CF_Again ==
    /\ pc = "cf_return" /\ loc.conversions = 1
    /\ loc' = [loc EXCEPT
                  !.first_output = loc.output,
                  !.input = SubSeq(loc.output, 1, FAT_MAX_FILENAME),
                  !.output = [k \in 1..FAT_MAX_FILENAME |-> "unwritten"]
                                 \o OutputGuard]
    /\ pc' = "cf_entry"
    /\ UNCHANGED notFilenameVars

NextFilename ==
    \/ CF_Memset
    \/ CF_Name
    \/ CF_Skip
    \/ CF_Ext
    \/ CF_Again

SpecFilename == InitFilename /\ [][NextFilename]_vars

-----------------------------------------------------------------------------
(* SpecMount: FAT_Mount (buffers.c:70-130) on cards with good and bad boot     *)
(* sectors, with and without a partition table, with block reads that fail,   *)
(* through an SD handle that is initialized or not, on a volume that is fresh *)
(* or was mounted before; and FAT_FindFile and Media_Open on the volume after  *)

\* the volume a correct mount of a card with clusters of spc sectors gives
MountContent(spc) == MediaVolume(IF spc = 0 THEN 1 ELSE spc, 0, 0, TRUE)

\* the cards: the data region starts at MediaDataStartSector on all of them
Cards ==
    {[initialized |-> TRUE, mbr_signature |-> mbr, partition_lba |-> lba,
      boot |-> [signature |-> sig, bytes_per_sector |-> bps,
                sectors_per_cluster |-> spc,
                reserved_sectors |-> MediaDataStartSector - lba - 32,
                num_fats |-> num_fats,
                sectors_per_fat |-> IF num_fats = 0 THEN 0 ELSE 32 \div num_fats,
                root_cluster |-> MediaRootCluster],
      content |-> MountContent(spc)] :
        mbr \in {BootSignature, <<85, 0>>, <<0, 170>>},
        lba \in {0, 8},
        sig \in {BootSignature, <<0, 0>>},
        bps \in {SD_BLOCK_SIZE, 2 * SD_BLOCK_SIZE},
        spc \in {0, 1, 4},
        num_fats \in {0, 1, 2}}

\* without a partition table the boot sector is sector 0
RealCards == {c \in Cards : c.partition_lba = 0 => c.boot.signature = c.mbr_signature}

\* static storage, and any card in the slot
InitMount ==
    /\ sync_ret = [call |-> "none", decision |-> "NOT_STARTED"]
    /\ fault = FALSE
    /\ g_display_buffers = TripleBuffer0
    /\ g_framebuffer = Framebuffer0
    /\ i2c_dma = I2cDma0
    /\ hist = Hist0
    /\ sync = AVSyncZero
    /\ audio = AudioZero
    /\ dac_dma = DacDma0
    /\ s_dma_buffer = DmaBuffer0
    /\ g_media = MediaZero
    /\ g_display = [dma_busy |-> FALSE, last_error |-> "OK", initialized |-> FALSE]
    /\ \E card \in RealCards : loc = [Loc0 EXCEPT !.card = card]
    /\ pc = "idle"
    /\ ret = "idle"

\* loc after a call on the volume
MountLoc(status, vol) ==
    [loc EXCEPT !.media_status = status, !.g_volume = vol]

\* main.c:241  FAT_Mount(&g_volume, &g_sd), with an SD handle that SD_Init has
\* set up or has not
Call_FAT_Mount ==
    /\ ~fault /\ pc = "idle"
    /\ \E initialized \in BOOLEAN, fail_at \in FailAts :
        LET r == FAT_Mount(loc.g_volume,
                           [loc.card EXCEPT !.initialized = initialized],
                           Io0(fail_at))
        IN  /\ loc' = [MountLoc("none", r.vol) EXCEPT
                          !.mount_status = r.status,
                          !.mounted_before = loc.g_volume.mounted,
                          !.hsd_initialized = initialized,
                          !.file_info = Loc0.file_info]
            /\ hist' = [hist EXCEPT !.media_call = "FAT_Mount"]
    /\ g_media' = MediaZero
    /\ UNCHANGED notMediaVars

\* FAT_FindFile(&g_volume, "BADAPPLE.BIN", &file_info) after FAT_Mount
MT_FAT_FindFile ==
    /\ ~fault /\ pc = "idle"
    /\ hist.media_call = "FAT_Mount"
    /\ LET r == FAT_FindFile(loc.g_volume, loc.file_info, Io0(0))
       IN  /\ loc' = [MountLoc(r.status, loc.g_volume) EXCEPT !.file_info = r.info]
           /\ hist' = [hist EXCEPT !.media_call = "FAT_FindFile"]
    /\ UNCHANGED <<g_media, notMediaVars>>

\* Media_Open(&g_media, &g_volume, &file_info) after FAT_Mount or FAT_FindFile
MT_Media_Open ==
    /\ ~fault /\ pc = "idle"
    /\ hist.media_call \in {"FAT_Mount", "FAT_FindFile"}
    /\ LET r == Media_Open(g_media, loc.g_volume, loc.file_info, Io0(0))
       IN  /\ g_media' = r.m
           /\ loc' = MountLoc(r.status, loc.g_volume)
           /\ hist' = [hist EXCEPT !.media_call = "Media_Open"]
    /\ UNCHANGED notMediaVars

NextMount ==
    \/ Call_FAT_Mount
    \/ MT_FAT_FindFile
    \/ MT_Media_Open

SpecMount == InitMount /\ [][NextMount]_vars

-----------------------------------------------------------------------------
(* SpecSd: SD_ReadBlock and SD_ReadMultipleBlocks (sd_card.c) with the SPI DMA *)
(* callbacks SD_DMA_RxComplete and SD_DMA_Error.  A transfer that was started *)
(* completes, fails, or does neither before the timeout; the card answers the *)
(* read command and sends the data token or does not.  loc keeps, for the     *)
(* call in progress, what the DMA did: completions, dma_errors, dma_timeouts  *)
(* and dma_start_failures                                                     *)

\* the most blocks asked of SD_ReadMultipleBlocks
MaxBlockCount == 3

notSdVars == <<syncVars, fault, audioVars, displayVars, g_media, ret, hist>>

\* static storage; SD_Init has succeeded or has not
InitSd ==
    /\ sync_ret = [call |-> "none", decision |-> "NOT_STARTED"]
    /\ fault = FALSE
    /\ g_display_buffers = TripleBuffer0
    /\ g_framebuffer = Framebuffer0
    /\ i2c_dma = I2cDma0
    /\ hist = Hist0
    /\ sync = AVSyncZero
    /\ audio = AudioZero
    /\ dac_dma = DacDma0
    /\ s_dma_buffer = DmaBuffer0
    /\ g_media = MediaZero
    /\ g_display = [dma_busy |-> FALSE, last_error |-> "OK", initialized |-> FALSE]
    /\ \E initialized \in BOOLEAN :
        loc = [Loc0 EXCEPT !.g_sd.initialized = initialized]
    /\ pc = "idle"
    /\ ret = "idle"

\* loc at the return of a read with status
SdReturn(l, status) == [l EXCEPT !.sd_status = status]

\* SD_ReadBlock(hsd, buffer, block), SD_ReadMultipleBlocks(hsd, buffer, block,
\* count): the parameter checks; count == 1 is passed on to SD_ReadBlock
Call_SD_Read ==
    /\ pc = "idle"
    /\ \E call \in {"SD_ReadBlock", "SD_ReadMultipleBlocks"},
          count \in 0..MaxBlockCount :
        /\ call = "SD_ReadBlock" => count = 1
        /\ LET l == [loc EXCEPT
                        !.sd_call = IF count = 1 THEN "SD_ReadBlock" ELSE call,
                        !.sd_count = count, !.sd_i = 0, !.sd_status = "none",
                        !.completions = 0, !.dma_errors = 0,
                        !.dma_timeouts = 0, !.dma_start_failures = 0]
           IN  IF ~loc.g_sd.initialized \/ count = 0
               THEN /\ loc' = SdReturn(l, "SD_ERROR")
                    /\ pc' = "sd_return"
               ELSE /\ loc' = l
                    /\ pc' = "sd_response"
    /\ UNCHANGED notSdVars

\* the command is sent; SD_GetResponse(hsd) != 0x00 returns SD_ERROR
SD_Response ==
    /\ pc = "sd_response"
    /\ \E accepted \in BOOLEAN :
        IF accepted
        THEN pc' = "sd_token" /\ UNCHANGED loc
        ELSE pc' = "sd_return" /\ loc' = SdReturn(loc, "SD_ERROR")
    /\ UNCHANGED notSdVars

\* SD_WaitDataToken(hsd) != SD_OK gives SD_ERROR_TIMEOUT (in
\* SD_ReadMultipleBlocks after the stop command)
SD_Token ==
    /\ pc = "sd_token"
    /\ \E token \in BOOLEAN :
        IF token
        THEN pc' = "sd_dma_start" /\ UNCHANGED loc
        ELSE pc' = "sd_return" /\ loc' = SdReturn(loc, "SD_ERROR_TIMEOUT")
    /\ UNCHANGED notSdVars

\* SD_ReadBlockData_DMA: the flags and HAL_SPI_TransmitReceive_DMA
SD_DmaStart ==
    /\ pc = "sd_dma_start"
    /\ \E hal_ok \in BOOLEAN :
        IF hal_ok
        THEN /\ loc' = [loc EXCEPT !.g_sd.dma_busy = TRUE,
                                   !.g_sd.dma_error = FALSE,
                                   !.spi_dma_active = TRUE]
             /\ pc' = "sd_dma_wait"
        ELSE /\ loc' = SdReturn([loc EXCEPT !.g_sd.dma_busy = FALSE,
                                            !.g_sd.dma_error = FALSE,
                                            !.dma_start_failures = @ + 1],
                                "SD_ERROR")
             /\ pc' = "sd_return"
    /\ UNCHANGED notSdVars

\* SD_ReadBlockData_DMA: the wait has seen dma_busy false; dma_error, the CRC
\* bytes, and the next block or the return
SD_DmaDone ==
    /\ pc = "sd_dma_wait"
    /\ ~loc.g_sd.dma_busy
    /\ IF loc.g_sd.dma_error
       THEN /\ loc' = SdReturn(loc, "SD_ERROR")
            /\ pc' = "sd_return"
       ELSE IF loc.sd_i + 1 < loc.sd_count
       THEN /\ loc' = [loc EXCEPT !.sd_i = @ + 1]
            /\ pc' = "sd_token"
       ELSE /\ loc' = SdReturn([loc EXCEPT !.sd_i = @ + 1], "SD_OK")
            /\ pc' = "sd_return"
    /\ UNCHANGED notSdVars

\* SD_ReadBlockData_DMA: the wait has seen dma_busy true after
\* SD_DMA_TIMEOUT_US: HAL_SPI_DMAStop and SD_ERROR_TIMEOUT
SD_DmaTimeout ==
    /\ pc = "sd_dma_wait"
    /\ loc.g_sd.dma_busy
    /\ loc' = SdReturn([loc EXCEPT !.g_sd.dma_busy = FALSE,
                                   !.spi_dma_active = FALSE,
                                   !.dma_timeouts = @ + 1],
                       "SD_ERROR_TIMEOUT")
    /\ pc' = "sd_return"
    /\ UNCHANGED notSdVars

\* HAL_SPI_TxRxCpltCallback (main.c:80): the transfer is complete
ISR_SD_DMA_RxComplete ==
    /\ loc.spi_dma_active
    /\ loc' = [loc EXCEPT !.g_sd = SD_DMA_RxComplete(loc.g_sd),
                          !.spi_dma_active = FALSE,
                          !.completions = @ + 1]
    /\ UNCHANGED <<pc, notSdVars>>

\* HAL_SPI_ErrorCallback (main.c:87): the transfer has failed
ISR_SD_DMA_Error ==
    /\ loc.spi_dma_active
    /\ loc' = [loc EXCEPT !.g_sd = SD_DMA_Error(loc.g_sd),
                          !.spi_dma_active = FALSE,
                          !.dma_errors = @ + 1]
    /\ UNCHANGED <<pc, notSdVars>>

\* the caller has the status
SD_Returned ==
    /\ pc = "sd_return"
    /\ pc' = "idle"
    /\ UNCHANGED <<loc, notSdVars>>

NextSd ==
    \/ Call_SD_Read
    \/ SD_Response
    \/ SD_Token
    \/ SD_DmaStart
    \/ SD_DmaDone
    \/ SD_DmaTimeout
    \/ ISR_SD_DMA_RxComplete
    \/ ISR_SD_DMA_Error
    \/ SD_Returned

SpecSd == InitSd /\ [][NextSd]_vars

-----------------------------------------------------------------------------
(* SpecConvert: one pass of Media_ReadAudioStereo's conversion loop, on any    *)
(* stereo sample, at the default volume or any that Media_SetVolume can leave   *)

\* the left samples tried: every ConvSampleStep-th int16_t value and the ones
\* around zero and at the top
ConvSampleStep == 1024
LeftSamples ==
    {k * ConvSampleStep - 32768 : k \in 0..(65535 \div ConvSampleStep)}
        \cup {0 - 1, 0, 1, 32767}
RightSamples == {0 - 32768, 0 - 1, 0, 32767}

\* after Media_Open, with a stereo sample in s_audio_buffer
InitConvert ==
    /\ sync_ret = [call |-> "none", decision |-> "NOT_STARTED"]
    /\ fault = FALSE
    /\ g_display_buffers = TripleBuffer0
    /\ g_framebuffer = Framebuffer0
    /\ i2c_dma = I2cDma0
    /\ hist = Hist0
    /\ sync = AVSyncZero
    /\ audio = AudioZero
    /\ dac_dma = DacDma0
    /\ s_dma_buffer = DmaBuffer0
    /\ g_display = [dma_busy |-> FALSE, last_error |-> "OK", initialized |-> FALSE]
    /\ g_media = [MediaZero EXCEPT !.is_open = TRUE,
                                   !.volume_percent = MEDIA_DEFAULT_VOLUME]
    /\ \E l_raw \in LeftSamples, r_raw \in RightSamples :
        loc = [Loc0 EXCEPT !.l_raw = l_raw, !.r_raw = r_raw]
    /\ pc = "idle"
    /\ ret = "idle"

\* main.c:266  Media_SetVolume(&g_media, percent), once, percent any uint8_t
Call_Media_SetVolume ==
    /\ ~fault /\ pc = "idle"
    /\ \E percent \in 0..255 : g_media' = Media_SetVolume(g_media, percent)
    /\ pc' = "mra_convert"
    /\ UNCHANGED <<syncVars, fault, audioVars, displayVars, ret, loc, hist>>

\* media_file_reader.c:333-343, the body of the conversion loop
MRA_Convert ==
    /\ ~fault /\ pc \in {"idle", "mra_convert"}
    /\ loc' = [loc EXCEPT
                  !.left = Media_ConvertSample(loc.l_raw, g_media.volume_percent),
                  !.right = Media_ConvertSample(loc.r_raw, g_media.volume_percent)]
    /\ pc' = "mra_converted"
    /\ UNCHANGED <<syncVars, fault, audioVars, displayVars, g_media, ret, hist>>

NextConvert == Call_Media_SetVolume \/ MRA_Convert

SpecConvert == InitConvert /\ [][NextConvert]_vars

-----------------------------------------------------------------------------
(* Properties of the synchronizer (SpecSync) *)

\* AVSync_GetFrameDecision has just returned a decision in state RUNNING
DecisionTaken ==
    /\ sync_ret.call = "AVSync_GetFrameDecision"
    /\ sync.state = "RUNNING"
    /\ ~fault
    /\ sync.samples_per_frame >= 1

\* video_frames_rendered - audio_samples_played / S, as integers
TrueDrift == sync.video_frames_rendered
             - (sync.audio_samples_played \div sync.samples_per_frame)

\* d compared with the value of the uint32_t word D, which is at least 2^31
\* when D is held negative; |d| is below 2^31 in every state of the model
AbsLeWord(d, D) == IF D < 0 THEN TRUE ELSE d <= D /\ -d <= D
LtMinusWord(d, D) == IF D < 0 THEN FALSE ELSE d < -D
GtWord(d, D) == IF D < 0 THEN FALSE ELSE d > D

\* C4 as stated: for every S >= 1 and every max_drift_frames D, the decision is
\* RENDER iff |v - a/S| <= D, SKIP iff v - a/S < -D, REPEAT iff v - a/S > D.
C4_DecisionLaw_AnyD ==
    DecisionTaken =>
        /\ sync_ret.decision = "RENDER_FRAME"
             <=> AbsLeWord(TrueDrift, sync.max_drift_frames)
        /\ sync_ret.decision = "SKIP_FRAME"
             <=> LtMinusWord(TrueDrift, sync.max_drift_frames)
        /\ sync_ret.decision = "REPEAT_FRAME"
             <=> GtWord(TrueDrift, sync.max_drift_frames)

\* C4 amended: the decision law holds when max_drift_frames D is at most
\* 2^31 - 1 (and the two frame indices are, as in every state of the model):
\* RENDER iff |v - a/S| <= D (inclusive, a/S truncated), SKIP iff v - a/S < -D,
\* REPEAT iff v - a/S > D.
C4_DecisionLaw ==
    (DecisionTaken /\ sync.max_drift_frames >= 0) =>
        /\ sync_ret.decision = "RENDER_FRAME"
             <=> (TrueDrift <= sync.max_drift_frames
                  /\ -TrueDrift <= sync.max_drift_frames)
        /\ sync_ret.decision = "SKIP_FRAME"
             <=> TrueDrift < -sync.max_drift_frames
        /\ sync_ret.decision = "REPEAT_FRAME"
             <=> TrueDrift > sync.max_drift_frames

\* C4 witness: a RENDER decision on the band's lower edge (drift = -D) whose
\* audio frame index was truncated by the division
C4_Witness ==
    /\ DecisionTaken
    /\ sync.max_drift_frames >= 0
    /\ TrueDrift = -sync.max_drift_frames
    /\ sync.audio_samples_played % sync.samples_per_frame # 0
    /\ sync_ret.decision = "RENDER_FRAME"

\* C9 as stated: while the state is RUNNING, audio_samples_played never
\* decreases, whichever synchronizer API is called (AVSync_Start included).
C9_Monotone_AnyCall ==
    [][(sync.state = "RUNNING" /\ sync'.state = "RUNNING")
        => sync'.audio_samples_played >= sync.audio_samples_played]_vars

\* C9 amended: while the state is RUNNING, audio_samples_played never decreases
\* across AVSync_AudioTick, AVSync_GetFrameDecision, AVSync_FrameRendered and
\* AVSync_FrameSkipped (short of the 32-bit counter wrapping); AVSync_Start on
\* an initialized synchronizer, RUNNING or not, resets it to 0.
C9_Monotone ==
    [][/\ (sync.state = "RUNNING" /\ sync'.state = "RUNNING"
           /\ sync_ret'.call # "AVSync_Start")
          => sync'.audio_samples_played >= sync.audio_samples_played
       /\ (sync_ret'.call = "AVSync_Start" /\ sync.initialized
           /\ sync_ret' # sync_ret)
          => sync'.audio_samples_played = 0]_vars

\* C9 witness: a tick has advanced the count of a RUNNING synchronizer twice
C9_Witness ==
    /\ sync.state = "RUNNING"
    /\ sync_ret.call = "AVSync_AudioTick"
    /\ sync.audio_samples_played >= 3

\* C10 as stated: an initialized synchronizer has samples_per_frame >= 1
\* (AVSync_Init rejects sample_rate / video_fps = 0).
C10_SamplesPerFramePositive ==
    sync.initialized => sync.samples_per_frame >= 1

\* the step is a call of AVSync_AudioTick
IsAudioTick == sync_ret'.call = "AVSync_AudioTick"

\* the tick of the claim: outside RUNNING it changes no field of the handle
TickOutsideRunning == (IsAudioTick /\ sync.state # "RUNNING") => sync' = sync

\* C27: audio_samples_played increases only in a call of AVSync_AudioTick in
\* state RUNNING; every other change of it is the reset to 0 by AVSync_Init or
\* AVSync_Start; a call of AVSync_AudioTick in RESET, READY or STOPPED changes
\* no field of the handle; and from AVSync_Stop until the next AVSync_Init or
\* AVSync_Start the audio frame index AVSync_GetCurrentFrame stays the same
C27_PlayedOnlyWhileRunning ==
    [][/\ sync'.audio_samples_played > sync.audio_samples_played =>
              IsAudioTick /\ sync.state = "RUNNING"
       /\ (sync'.audio_samples_played # sync.audio_samples_played /\ ~IsAudioTick)
              => /\ sync'.audio_samples_played = 0
                 /\ sync_ret'.call \in {"AVSync_Init", "AVSync_Start"}
       /\ TickOutsideRunning
       /\ (sync.state = "STOPPED"
              /\ sync_ret'.call \notin {"AVSync_Init", "AVSync_Start"})
              => AVSync_GetCurrentFrame(sync') = AVSync_GetCurrentFrame(sync)
      ]_vars

\* C27 as stated: audio_samples_played changes in no step but a call of
\* AVSync_AudioTick in state RUNNING, and a call of AVSync_AudioTick in another
\* state changes no field
C27_OnlyAudioTickChanges ==
    [][/\ sync'.audio_samples_played # sync.audio_samples_played =>
              IsAudioTick /\ sync.state = "RUNNING"
       /\ TickOutsideRunning
      ]_vars

\* AVSync_AudioTick was called after AVSync_Stop, with samples played before
C27_Witness ==
    /\ sync.state = "STOPPED"
    /\ sync_ret.call = "AVSync_AudioTick"
    /\ sync.audio_samples_played > 0
    /\ AVSync_GetCurrentFrame(sync) > 0

\* C39: after a successful AVSync_Init, max_drift_frames is the max_drift
\* argument when that is above 0 and 2 when it is 0, so an initialized
\* synchronizer has max_drift_frames >= 1 (as a uint32_t)
C39_MaxDriftDefault ==
    /\ (/\ sync_ret.call = "AVSync_Init"
        /\ sync_ret.args.sample_rate # 0
        /\ sync_ret.args.video_fps # 0)
       => /\ sync.initialized
          /\ sync.max_drift_frames = IF sync_ret.args.max_drift = 0 THEN 2
                                     ELSE sync_ret.args.max_drift
    /\ sync.initialized => U32Gt(sync.max_drift_frames, 0)

\* AVSync_Init has just succeeded with max_drift = 0 and the default is in place
C39_Witness ==
    /\ sync_ret.call = "AVSync_Init"
    /\ sync_ret.args.sample_rate # 0 /\ sync_ret.args.video_fps # 0
    /\ sync_ret.args.max_drift = 0
    /\ sync.initialized
    /\ sync.max_drift_frames = 2

\* the drift that AVSync_GetFrameDecision computes in the state before the call
DriftBefore ==
    sync.video_frames_rendered
    - (IF sync.samples_per_frame = 0 THEN 0
       ELSE sync.audio_samples_played \div sync.samples_per_frame)

\* C38: AVSync_GetFrameDecision returns NOT_STARTED and changes nothing when the
\* state is not RUNNING; in RUNNING it changes nothing but stats.min_drift and
\* stats.max_drift, and when it has returned min_drift <= drift <= max_drift
\* for the drift of that call and min_drift <= 0 <= max_drift
C38_DecisionFrame ==
    [][sync_ret'.call = "AVSync_GetFrameDecision" =>
        IF sync.state # "RUNNING"
        THEN sync' = sync /\ sync_ret'.decision = "NOT_STARTED"
        ELSE /\ sync' = [sync EXCEPT !.stats.min_drift = sync'.stats.min_drift,
                                     !.stats.max_drift = sync'.stats.max_drift]
             /\ ~fault' =>
                   /\ sync_ret'.decision # "NOT_STARTED"
                   /\ sync'.stats.min_drift <= DriftBefore
                   /\ DriftBefore <= sync'.stats.max_drift
                   /\ sync'.stats.min_drift <= 0
                   /\ 0 <= sync'.stats.max_drift
    ]_vars

\* a decision was returned in RUNNING and both a negative and a positive drift
\* have been recorded since AVSync_Start
C38_Witness ==
    /\ sync_ret.call = "AVSync_GetFrameDecision"
    /\ sync_ret.decision # "NOT_STARTED"
    /\ sync.state = "RUNNING"
    /\ sync.stats.min_drift < 0
    /\ sync.stats.max_drift > 0

-----------------------------------------------------------------------------
(* Properties of the display pipeline (SpecDisplay) *)

\* C1: in every state an interrupt or a caller can observe, render, ready and
\* transfer are pairwise distinct and together are the three slots 0, 1, 2.
C1_Permutation ==
    /\ g_display_buffers.render # g_display_buffers.ready
    /\ g_display_buffers.ready # g_display_buffers.transfer
    /\ g_display_buffers.render # g_display_buffers.transfer
    /\ {g_display_buffers.render, g_display_buffers.ready,
        g_display_buffers.transfer} = Slots

\* both swaps have acted, and a completion interrupt is due in the middle of a draw
C1_Witness ==
    /\ g_display_buffers.frames_rendered >= 2
    /\ g_display_buffers.frames_transferred >= 1
    /\ g_display_buffers.transfer_busy
    /\ i2c_dma.busy
    /\ pc = "rvf_writing"
    /\ g_display_buffers.transfer # 1

\* C5: frames_rendered >= frames_transferred in every state, the failure paths
\* of SSD1306_UpdateScreen_DMA and the DMA callbacks included.
C5_RenderedGeTransferred ==
    g_display_buffers.frames_rendered >= g_display_buffers.frames_transferred

\* every drawn frame has been accounted as transferred, one of them by a failure
\* path or the error callback
C5_Witness ==
    /\ g_display_buffers.frames_rendered = g_display_buffers.frames_transferred
    /\ g_display_buffers.frames_transferred >= 2
    /\ g_display.last_error = "ERROR_I2C"

\* the foreground is writing, or about to write, the buffer in loc.render_buffer
Drawing == pc \in {"rvf_write", "rvf_writing"}

\* C6: for the whole duration of RenderVideoFrame's write, the buffer written is
\* not the transfer slot while transfer_busy, nor the buffer the I2C DMA is
\* reading; no buffer other than the one being written is ever incomplete.
C6_NoWriteToTransfer ==
    /\ (Drawing /\ g_display_buffers.transfer_busy)
            => loc.render_buffer # g_display_buffers.transfer
    /\ (Drawing /\ i2c_dma.busy) => loc.render_buffer # i2c_dma.buf
    /\ \A s \in Slots : ~g_framebuffer[s].whole
            => (pc = "rvf_writing" /\ s = loc.render_buffer)
    /\ i2c_dma.busy => g_framebuffer[i2c_dma.buf].whole

\* a draw is half done while the DMA is reading another buffer
C6_Witness ==
    /\ pc = "rvf_writing"
    /\ g_display_buffers.transfer_busy
    /\ i2c_dma.busy
    /\ i2c_dma.buf = g_display_buffers.transfer
    /\ ~g_framebuffer[loc.render_buffer].whole
    /\ g_display_buffers.frames_transferred >= 1

\* C7 (as stated): when Display_StartTransfer has just returned true, the slot
\* that became transfer holds the frame drawn before the most recent
\* Display_SwapBuffers.
C7_TransfersLatestFrame ==
    pc = "usd_addr" =>
        g_framebuffer[g_display_buffers.transfer].seq
            = g_display_buffers.frames_rendered
\* Display_StartTransfer hands result back to its caller in this step
DST_Returns(result) ==
    IF loc.dst_caller = "usd"
    THEN pc' = (IF result THEN "usd_addr" ELSE ret)
    ELSE pc' = ret /\ loc'.dst_result = result

\* C12: Display_StartTransfer returns false and changes nothing of
\* g_display_buffers when transfer_busy is true or frames_rendered <=
\* frames_transferred; otherwise it swaps ready and transfer, sets transfer_busy,
\* leaves render and both counters alone and returns true; the state it swaps in
\* still passes both checks, whatever interrupts ran since they were made.
C12_StartTransferAtomic ==
    [][/\ (DST_CheckBusy /\ g_display_buffers.transfer_busy)
            => (DST_Returns(FALSE) /\ UNCHANGED displayVars)
       /\ (DST_CheckHasFrame /\ g_display_buffers.frames_rendered
                                   <= g_display_buffers.frames_transferred)
            => (DST_Returns(FALSE) /\ UNCHANGED displayVars)
       /\ DST_Swap =>
            /\ ~g_display_buffers.transfer_busy
            /\ g_display_buffers.frames_rendered
                    > g_display_buffers.frames_transferred
            /\ g_display_buffers'.transfer = g_display_buffers.ready
            /\ g_display_buffers'.ready = g_display_buffers.transfer
            /\ g_display_buffers'.transfer_busy
            /\ g_display_buffers'.render = g_display_buffers.render
            /\ g_display_buffers'.frames_rendered
                    = g_display_buffers.frames_rendered
            /\ g_display_buffers'.frames_transferred
                    = g_display_buffers.frames_transferred
            /\ DST_Returns(TRUE)]_vars

\* a direct call has returned true after earlier transfers were completed by the
\* DMA interrupt
C12_Witness ==
    /\ pc = "idle"
    /\ loc.dst_caller = "client"
    /\ loc.dst_result
    /\ g_display_buffers.transfer_busy
    /\ ~g_display.dma_busy
    /\ g_display_buffers.frames_transferred >= 1
    /\ g_display_buffers.transfer # 1

-----------------------------------------------------------------------------
(* Properties of the audio path (SpecAudio) *)

\* the foreground is storing samples into the half loc.fill_half
WritingHalf == pc = "raf_writing"

C3_UnderrunCounted ==
    [][(/\ audio'.stats.samples_played # audio.stats.samples_played
        /\ audio.needs_refill)
        => audio'.stats.underrun_count = audio.stats.underrun_count + 1]_vars
\* what the claim C11 says of one LEFT-channel interrupt on the Audio_Handle
IsrHandleEffect(half) ==
    /\ audio'.fill_half = half
    /\ audio'.needs_refill
    /\ audio'.stats.samples_played
            = audio.stats.samples_played + AUDIO_HALF_BUFFER_SAMPLES
    /\ audio'.stats.refill_count = audio.stats.refill_count
    /\ audio'.state = audio.state

\* C11 (as stated): a half-complete interrupt sets fill_half = FIRST, a
\* transfer-complete interrupt fill_half = SECOND, both set needs_refill and add
\* N to stats.samples_played and, if a synchronizer is attached, N to its
\* audio_samples_played; the RIGHT channel's callbacks change nothing.
C11_IsrEffects_AnySync ==
    [][/\ ISR_DAC_HalfComplete => IsrHandleEffect("FIRST")
       /\ ISR_DAC_Complete => IsrHandleEffect("SECOND")
       /\ (ISR_DAC_HalfComplete \/ ISR_DAC_Complete) /\ audio.avsync
            => sync'.audio_samples_played
                  = sync.audio_samples_played + AUDIO_HALF_BUFFER_SAMPLES
       /\ ISR_DAC_Ch2 => UNCHANGED vars]_vars

\* C11 (amended): as stated, but the attached synchronizer's
\* audio_samples_played grows by N only when the synchronizer is RUNNING; in any
\* other state, and when none is attached, the synchronizer is left as it is.
C11_IsrEffects ==
    [][/\ ISR_DAC_HalfComplete => IsrHandleEffect("FIRST")
       /\ ISR_DAC_Complete => IsrHandleEffect("SECOND")
       /\ (ISR_DAC_HalfComplete \/ ISR_DAC_Complete)
            => IF audio.avsync /\ sync.state = "RUNNING"
               THEN sync' = [sync EXCEPT !.audio_samples_played =
                                @ + AUDIO_HALF_BUFFER_SAMPLES]
               ELSE sync' = sync
       /\ ISR_DAC_Ch2 => UNCHANGED vars]_vars

\* both interrupts have run with a running synchronizer attached
C11_Witness ==
    /\ audio.avsync
    /\ sync.state = "RUNNING"
    /\ audio.fill_half = "SECOND"
    /\ audio.needs_refill
    /\ audio.stats.samples_played = 2 * AUDIO_HALF_BUFFER_SAMPLES
    /\ sync.audio_samples_played = 2 * AUDIO_HALF_BUFFER_SAMPLES

\* C30: a refill request is not lost: whenever needs_refill is cleared, the
\* request it stood for is the one the foreground sampled (no DAC interrupt has
\* raised a request since RefillAudioBuffers read fill_half) and the half it
\* names is the half that was just refilled
C30_RefillNeverLost ==
    [][(audio.needs_refill /\ ~audio'.needs_refill) =>
          /\ ~hist.isr_since_read
          /\ audio.fill_half = loc.fill_half]_vars

-----------------------------------------------------------------------------
(* Properties of the audio driver's API (SpecAudioApi) *)

\* C23: the state of the audio handle changes only from RESET to READY in
\* audio_Init, from READY to PLAYING in audio_Start and from PLAYING to READY
\* in audio_Stop; audio_Start in a state other than READY returns AUDIO_ERROR
\* and leaves the state as it was; and a handle in RESET gets to READY by
\* audio_Init only
C23_AudioStateMachine ==
    /\ audio.state # hist.audio_before =>
           <<hist.audio_before, hist.audio_call, audio.state>> \in
               {<<"RESET", "audio_Init", "READY">>,
                <<"READY", "audio_Start", "PLAYING">>,
                <<"PLAYING", "audio_Stop", "READY">>}
    /\ (hist.audio_call = "audio_Start" /\ hist.audio_before # "READY") =>
           /\ hist.audio_status = "AUDIO_ERROR"
           /\ audio.state = hist.audio_before
    /\ (hist.audio_before = "RESET" /\ audio.state = "READY") =>
           hist.audio_call = "audio_Init"

\* the part of C23 about audio_Start alone
C23_StartRejected ==
    (hist.audio_call = "audio_Start" /\ hist.audio_before # "READY") =>
        /\ hist.audio_status = "AUDIO_ERROR"
        /\ audio.state = hist.audio_before

-----------------------------------------------------------------------------
(* Properties of the playback loop (Spec) *)

\* the switch of this iteration is over and UpdateDisplay is next
IterationDecided == pc = "loop_update"

LoopLeft == pc # "main_stop" /\ pc' = "main_stop"

\* C24: the playback loop is left only at its completion check, with
\* audio_frame >= frame_count, and, the interrupts firing and the reads
\* returning, it is left for every header Media_Open has accepted.  A run the
\* division trap has ended is not counted against the loop here, so what
\* violates the formula is a loop that goes round for ever
C24_LoopLeaves ==
    /\ [][LoopLeft => (pc = "loop_check" /\ ~U32Gt(loc.frame_count, loc'.audio_frame))]_vars
    /\ <>(pc = "main_stop" \/ fault)

\* the part of C24 that holds: the loop is left only at the completion check
C24_LeftOnlyAtCheck ==
    [][LoopLeft => (pc = "loop_check" /\ ~U32Gt(loc.frame_count, loc'.audio_frame))]_vars

\* for a header with a sample rate of VIDEO_FPS or more the loop is left
C24_LeftWithValidRate ==
    (pc = "main_init" /\ g_media.sample_rate >= VIDEO_FPS) ~> (pc = "main_stop")

\* C37: audio_BufferFilled clears needs_refill, adds one to stats.refill_count
\* and changes nothing else of the driver or of the synchronizer, and the
\* playback loop calls it only when RefillAudioBuffers has stored all the
\* samples of the half it took from audio_GetFillHalf
C37_BufferFilledFrame ==
    [][(pc = "raf_filled" /\ pc' # "raf_filled") =>
        /\ ~audio'.needs_refill
        /\ audio'.stats.refill_count = audio.stats.refill_count + 1
        /\ audio' = [audio EXCEPT
                        !.needs_refill = audio'.needs_refill,
                        !.stats.refill_count = audio'.stats.refill_count]
        /\ sync' = sync
        /\ s_dma_buffer' = s_dma_buffer
        /\ hist.written = loc.fill_half
    ]_vars

\* the loop has refilled the second half and audio_BufferFilled has returned
C37_Witness ==
    /\ pc \in {"loop_check", "loop_top"}
    /\ hist.written = "SECOND"
    /\ audio.stats.refill_count > 0
    /\ ~audio.needs_refill

\* C32: in the playback loop the drift video_frames_rendered - audio frame
\* index never exceeds +1, whatever the audio interrupts do, so with
\* max_drift_frames >= 1 no decision is REPEAT_FRAME and g_frames_repeated
\* stays 0
C32_NeverRepeat ==
    /\ sync.video_frames_rendered - AVSync_GetCurrentFrame(sync) <= 1
    /\ sync.stats.max_drift <= 1
    /\ sync.initialized => sync.max_drift_frames >= 1
    /\ loc.decision # "REPEAT_FRAME"
    /\ loc.g_frames_repeated = 0

\* the loop has taken a decision with the drift at +1, and has now skipped a
\* frame
C32_Witness ==
    /\ pc = "loop_update"
    /\ sync.stats.max_drift = 1
    /\ sync.stats.frames_skipped > 0
    /\ loc.g_frames_rendered > 0

\* C33: the frame numbers that the playback loop passes to Media_ReadFrameAt
\* are strictly increasing and each is below frame_count
C33_FramesIncreasing ==
    /\ \A i \in 1 .. Len(hist.frames_read) :
          /\ U32Gt(loc.frame_count, hist.frames_read[i])
          /\ hist.frames_read[i] >= 0
          /\ i > 1 => hist.frames_read[i] > hist.frames_read[i - 1]
    /\ (ret = "loop_rendered" /\ pc \in {"rvf_get", "rvf_write", "rvf_writing", "rvf_swap"})
          => /\ hist.frames_read # <<>>
             /\ loc.frame_number = hist.frames_read[Len(hist.frames_read)]

\* the loop has drawn two frames, and not two that follow each other
C33_Witness ==
    /\ Len(hist.frames_read) = 2
    /\ hist.frames_read[2] > hist.frames_read[1] + 1
    /\ pc = "loop_rendered"

\* the transfers that Display_StartTransfer has started and that no
\* Display_TransferComplete has ended
TransfersOpen == hist.transfers_started - g_display_buffers.frames_transferred

\* C34: every Display_StartTransfer that returned true is followed by exactly
\* one Display_TransferComplete before the next one succeeds (one transfer is
\* open while transfer_busy, none otherwise; the driver's dma_busy is set only
\* within an open transfer), and, an I2C transfer that was started ending in its
\* complete or its error interrupt, transfer_busy and dma_busy are false again
\* later on (dma_busy is false whenever transfer_busy is, by the second
\* conjunct).  A processor that the division trap has stopped serves no
\* interrupt: such a run is not counted against the pipeline here
C34_TransferCompletes ==
    /\ [](TransfersOpen = IF g_display_buffers.transfer_busy THEN 1 ELSE 0)
    /\ [](g_display.dma_busy => g_display_buffers.transfer_busy)
    /\ [](i2c_dma.busy <=> g_display.dma_busy)
    /\ (g_display_buffers.transfer_busy
          ~> (~g_display_buffers.transfer_busy \/ fault))

\* two transfers were started and ended, one of them by a failure, and the
\* pipeline is idle
C34_Witness ==
    /\ hist.transfers_started = 2
    /\ g_display_buffers.frames_transferred = 2
    /\ g_display.last_error = "ERROR_I2C"
    /\ ~g_display_buffers.transfer_busy
    /\ ~g_display.dma_busy

-----------------------------------------------------------------------------
(* Properties of the audio delivery (SpecPlay) *)

\* what a half-buffer that holds chunk k of the audio stream holds: samples
\* [k * N, (k + 1) * N), fewer and silence behind them at the end of the
\* stream, silence past the end
PlayChunk(k) ==
    LET total_samples == g_media.audio_size \div 4
        first == k * AUDIO_HALF_BUFFER_SAMPLES
    IN  IF first >= total_samples THEN HalfBuffer("silence", 0, 0)
        ELSE HalfBuffer("samples", first,
                        Min(AUDIO_HALF_BUFFER_SAMPLES, total_samples - first))

\* the samples that the halves before the k-th of the log delivered
RECURSIVE PlayedBefore(_, _)
PlayedBefore(halves, k) ==
    IF k <= 1 THEN 0
    ELSE PlayedBefore(halves, k - 1) + halves[k - 1].to_read

-----------------------------------------------------------------------------
(* Properties of the FAT32 layer and the media reader (SpecMedia) *)

\* the file's cluster chain on the card is one run c, c+1, ..., c+k-1
ChainIsRun(chain) == \A i \in 1..(Len(chain) - 1) : chain[i + 1] = chain[i] + 1

\* C13: once Media_Open has opened the file, if the file's cluster chain is
\* c, c+1, ..., c+k-1 then is_contiguous is true and first_sector is
\* FAT_ClusterToSector(c), and if some link of the chain is not its predecessor
\* plus one then is_contiguous is false, so that Media_ReadAt does not take the
\* contiguous path
C13_ContiguityDetected ==
    g_media.is_open =>
        LET chain == g_media.vol.hsd.chain
        IN  IF ChainIsRun(chain)
            THEN /\ g_media.is_contiguous
                 /\ g_media.first_sector
                        = FAT_ClusterToSector(g_media.vol, chain[1])
            ELSE /\ ~g_media.is_contiguous
                 /\ ~(g_media.is_contiguous /\ g_media.first_sector # 0)
\* the file's bytes at file offsets offset .. offset + size - 1 as they lie on
\* the card, by the file's cluster chain
RECURSIVE FileBytes(_, _, _, _)
FileBytes(vol, offset, size, buf) ==
    LET cluster_size == vol.sectors_per_cluster * SD_BLOCK_SIZE
        cluster == vol.hsd.chain[offset \div cluster_size + 1]
        addr == (vol.data_start_sector + (cluster - 2) * vol.sectors_per_cluster)
                    * SD_BLOCK_SIZE + (offset % cluster_size)
        n == Min(size, SD_BLOCK_SIZE - (offset % SD_BLOCK_SIZE))
    IN  IF size = 0 THEN buf
        ELSE FileBytes(vol, offset + n, size - n, AddExtent(buf, addr, n))

\* the last call was Media_ReadFrameAt of a frame of the open file, and no block
\* read has failed since the volume was mounted
FrameWasRead ==
    /\ hist.media_call = "Media_ReadFrameAt"
    /\ ~hist.read_failed
    /\ g_media.is_open
    /\ loc.frame_number < g_media.frame_count

\* C14: Media_ReadFrameAt(k, buf) with k < frame_count on the open file, all
\* block reads succeeding, returns FAT_OK and leaves in buf exactly the 1024
\* bytes of the file at offsets 20 + k * 1024 .. 20 + k * 1024 + 1023; and for a
\* file the contiguous path is used for, the fragmented path returns the same
C14_FrameBytesExact ==
    FrameWasRead =>
        LET offset == MEDIA_HEADER_SIZE + loc.frame_number * MEDIA_FRAME_SIZE
            other == Media_ReadAtFragmented(g_media, offset, MEDIA_FRAME_SIZE,
                                            <<>>, Io0(0))
        IN  /\ loc.media_status = "FAT_OK"
            /\ loc.frame_buf = FileBytes(g_media.vol, offset, MEDIA_FRAME_SIZE, <<>>)
            /\ (g_media.is_contiguous /\ g_media.first_sector # 0)
                    => (other.status = "FAT_OK" /\ other.buf = loc.frame_buf)

\* a frame that lies across the gap of a fragmented file has been read after a
\* later part of the file
C14_Witness ==
    /\ FrameWasRead
    /\ ~g_media.is_contiguous
    /\ Len(loc.frame_buf) = 2
    /\ g_media.current_sample > 0
    /\ loc.media_status = "FAT_OK"
\* C15: with every block read succeeding, whatever the chunk sizes of the
\* Media_ReadAudioStereo calls made since Media_Open, the samples they have
\* converted, put end to end, are the first current_sample stereo samples of
\* the file's audio stream, each once and in order; so a partition that reaches
\* the end of the stream has delivered what any other has, the whole stream
C15_PartitionIndependent ==
    (g_media.is_open /\ ~hist.read_failed) =>
        /\ g_media.current_sample <= g_media.audio_size \div 4
        /\ hist.delivered = FileBytes(g_media.vol, g_media.audio_offset,
                                      4 * g_media.current_sample, <<>>)

\* the whole stream of a fragmented file has been read, the last call asking
\* for more than was left after a call that delivered 2048 samples
C15_Witness ==
    /\ g_media.is_open /\ ~hist.read_failed
    /\ ~g_media.is_contiguous
    /\ hist.media_call = "Media_ReadAudioStereo"
    /\ g_media.current_sample = g_media.audio_size \div 4
    /\ loc.audio_out.to_read = MediaAudioSamples - MAX_AUDIO_READ_SAMPLES
    /\ loc.audio_out.to_read < loc.audio_out.count
    /\ Len(hist.delivered) = 2
\* the last call was one of the three that C17 names
ReadingCall ==
    hist.media_call \in {"FAT_FindFile", "Media_ReadFrameAt",
                         "Media_ReadAudioStereo"}

\* C17: a call of FAT_FindFile, Media_ReadFrameAt or Media_ReadAudioStereo
\* during which a block read failed, a read of a FAT sector included, returns
\* FAT_ERROR_READ
C17_FailuresPropagate ==
    (ReadingCall /\ loc.io.fail_at # 0) => loc.media_status = "FAT_ERROR_READ"

\* every one of the n samples of left[] and right[] is DAC_SILENCE
AllSilence(out, n) ==
    out.count = n /\ out.to_read = 0 /\ out.rest = DAC_SILENCE

\* the count Media_ReadAudioStereo works with, for the count asked
ClampedCount(asked) ==
    IF asked > MAX_AUDIO_READ_SAMPLES THEN MAX_AUDIO_READ_SAMPLES ELSE asked

C20_FrameIndexRejected ==
    [][(Call_Media_ReadFrameAt /\ loc'.frame_number >= g_media.frame_count) =>
        /\ loc'.media_status = "FAT_ERROR_INVALID_PARAM"
        /\ loc'.io.n = 0
        /\ loc'.frame_buf = <<<<Untouched, MEDIA_FRAME_SIZE>>>>
        /\ g_media' = g_media]_vars

\* frame_number = frame_count was asked of the open file, part of it read
C20_Witness ==
    /\ hist.media_call = "Media_ReadFrameAt"
    /\ g_media.is_open
    /\ g_media.frame_count > 0
    /\ loc.frame_number = g_media.frame_count
    /\ g_media.current_sample > 0
    /\ loc.media_status = "FAT_ERROR_INVALID_PARAM"

\* the samples a Media_ReadAudioStereo call for count samples advances
\* current_sample by when it returns FAT_OK, as the claim C35 reads
AdvanceBy(m, count) == Min(count, m.audio_size \div 4 - m.current_sample)

\* C35 as stated: a Media_ReadAudioStereo call that returns FAT_ERROR_READ or
\* FAT_ERROR_INVALID_PARAM leaves current_sample as it was, a call that
\* returns FAT_OK advances it by min(count, audio_size / 4 - current_sample)
\* for the count it was called with, no other step advances it, and
\* current_sample <= audio_size / 4 after every step
C35_AdvanceByCount ==
    [][/\ Call_Media_ReadAudioStereo =>
            /\ loc'.media_status \in {"FAT_ERROR_READ", "FAT_ERROR_INVALID_PARAM"}
                   => g_media'.current_sample = g_media.current_sample
            /\ loc'.media_status = "FAT_OK"
                   => g_media'.current_sample
                        = g_media.current_sample + AdvanceBy(g_media, loc'.to_read)
       /\ g_media'.current_sample > g_media.current_sample
            => hist'.media_call = "Media_ReadAudioStereo"
               /\ loc'.media_status = "FAT_OK"
       /\ g_media'.current_sample <= g_media'.audio_size \div 4]_vars

\* C35, amended: the same with count the count of the call capped at
\* MAX_AUDIO_READ_SAMPLES, as Media_ReadAudioStereo caps it before it computes
\* to_read
C35_AdvanceByCappedCount ==
    [][/\ Call_Media_ReadAudioStereo =>
            /\ loc'.media_status \in {"FAT_ERROR_READ", "FAT_ERROR_INVALID_PARAM"}
                   => g_media'.current_sample = g_media.current_sample
            /\ loc'.media_status = "FAT_OK"
                   => g_media'.current_sample
                        = g_media.current_sample
                          + AdvanceBy(g_media, ClampedCount(loc'.to_read))
       /\ g_media'.current_sample > g_media.current_sample
            => hist'.media_call = "Media_ReadAudioStereo"
               /\ loc'.media_status = "FAT_OK"
       /\ g_media'.current_sample <= g_media'.audio_size \div 4]_vars

\* a call for 3000 samples failed in its block read after an earlier call had
\* advanced current_sample, which is still short of the end
C35_Witness ==
    /\ hist.media_call = "Media_ReadAudioStereo"
    /\ loc.media_status = "FAT_ERROR_READ"
    /\ loc.to_read = 3000
    /\ g_media.current_sample = MediaAudioSamples \div 3
    /\ g_media.audio_size \div 4 = MediaAudioSamples

-----------------------------------------------------------------------------
(* Properties of FAT_FindFile (SpecFind) *)

\* the clusters of the chain that starts at cluster c, at most n of them
RECURSIVE ChainFrom(_, _, _)
ChainFrom(vol, c, n) ==
    IF n = 0 \/ c < 2 \/ c >= FAT_CLUSTER_END THEN <<>>
    ELSE <<c>> \o ChainFrom(vol, vol.fat[c], n - 1)

RootChain(vol) == ChainFrom(vol, vol.root_cluster, Cardinality(DOMAIN vol.fat))

\* the places of the root directory's entries: <<i, s, e>> is entry e of
\* sector s of the i-th cluster of the chain; p comes before q in the scan
DirPlaces(vol) ==
    (1..Len(RootChain(vol))) \X (1..vol.sectors_per_cluster) \X (1..16)
EntryAt(vol, p) == vol.dir[RootChain(vol)[p[1]]][p[2]][p[3]]
Earlier(p, q) ==
    \/ p[1] < q[1]
    \/ p[1] = q[1] /\ p[2] < q[2]
    \/ p[1] = q[1] /\ p[2] = q[2] /\ p[3] < q[3]

\* the entry ends the directory; the entry is the file asked for
EntryIsFree(entry) == entry[1] = 0
EntryMatches(entry) ==
    /\ entry[1] # 229
    /\ entry[12] % 16 # 15
    /\ \A k \in 1..11 : entry[k] = FatName[k]

\* the places where the scan of the claim stops
StopPlaces(vol) ==
    {p \in DirPlaces(vol) :
        EntryIsFree(EntryAt(vol, p)) \/ EntryMatches(EntryAt(vol, p))}
FirstStop(vol) ==
    CHOOSE p \in StopPlaces(vol) :
        \A q \in StopPlaces(vol) : q = p \/ Earlier(p, q)

\* C36: a FAT_FindFile call on a mounted volume, none of whose block reads
\* failed, returns FAT_OK with first_cluster = (u16 at offset 20 << 16) | u16 at
\* offset 26 and size = u32 at offset 28 of the first entry, in the order of
\* the root directory's cluster chain, its sectors and their entries, that is
\* not deleted, not a long-name entry and carries the converted name, if no
\* entry with first byte 0x00 comes before it; it returns FAT_ERROR_NOT_FOUND
\* if such an entry comes before any match or the chain ends without a match
C36_FirstMatchInChainOrder ==
    (/\ hist.media_call = "FAT_FindFile"
     /\ loc.g_volume.mounted
     /\ loc.io.fail_at = 0) =>
        LET vol == loc.g_volume
            entry == EntryAt(vol, FirstStop(vol))
        IN  IF StopPlaces(vol) = {} \/ EntryIsFree(entry)
            THEN loc.media_status = "FAT_ERROR_NOT_FOUND"
            ELSE /\ loc.media_status = "FAT_OK"
                 /\ loc.file_info.first_cluster
                        = (entry[21] + entry[22] * 256) * 65536
                          + entry[27] + entry[28] * 256
                 /\ loc.file_info.size
                        = entry[29] + entry[30] * 256 + entry[31] * 65536
                          + entry[32] * 16777216

\* the file was found in the last entry of the second cluster of the chain,
\* behind a long-name entry with its name in the first cluster, a deleted
\* entry and the entries of cluster 3
C36_Witness ==
    /\ hist.media_call = "FAT_FindFile"
    /\ loc.g_volume = FindVolume(2, <<"lfn_archive", "deleted", "second">>)
    /\ loc.io.fail_at = 0
    /\ loc.io.n = 5
    /\ loc.media_status = "FAT_OK"
    /\ loc.file_info = [first_cluster |-> FindSecondCluster, size |-> 70000]

-----------------------------------------------------------------------------
(* Properties of the cluster cache (SpecCache) *)

\* the walk of the FAT chain from cluster over index links, which stops at a
\* value that ends the chain
RECURSIVE ChainAt(_, _, _)
ChainAt(vol, cluster, index) ==
    IF index = 0 \/ cluster < 2 \/ cluster >= FAT_CLUSTER_END THEN cluster
    ELSE ChainAt(vol, IF cluster \in DOMAIN vol.fat THEN vol.fat[cluster] ELSE 0,
                 index - 1)

\* C40: a Media_GetClusterAt(media, byte_offset) call none of whose FAT reads
\* fails, made after any sequence of earlier lookups, returns the cluster that
\* the walk from first_cluster over byte_offset / cluster_size links returns;
\* and a cached_cluster that is a data cluster (2 or more, below
\* FAT_CLUSTER_END) is the cluster at index cached_cluster_index of the chain
C40_CacheTransparent ==
    /\ (hist.media_call = "Media_GetClusterAt" /\ loc.io.fail_at = 0) =>
            loc.cluster = ChainAt(g_media.vol, g_media.first_cluster,
                                  loc.ra_offset \div FAT_GetClusterSize(g_media.vol))
    /\ (g_media.cached_cluster >= 2 /\ g_media.cached_cluster < FAT_CLUSTER_END) =>
            g_media.cached_cluster
                = ChainAt(g_media.vol, g_media.first_cluster,
                          g_media.cached_cluster_index)

\* a lookup behind the gap of the chain that took one FAT read, the cache
\* holding the cluster before: clusters of one sector, chain index 5
C40_Witness ==
    /\ hist.media_call = "Media_GetClusterAt"
    /\ g_media.vol.sectors_per_cluster = 1
    /\ loc.ra_offset = 5 * SD_BLOCK_SIZE
    /\ loc.io.n = 1 /\ loc.io.fail_at = 0
    /\ loc.cluster = MediaFirstCluster + 5 + 2
    /\ g_media.cached_cluster = loc.cluster
    /\ g_media.cached_cluster_index = 5

-----------------------------------------------------------------------------
(* Properties of the sample conversion (SpecConvert) *)

\* C16: the conversion leaves a value in 0 .. 4095 in left[i] and right[i] for
\* every int16_t sample at every volume 0 .. 100 (checked for the pair of
\* samples converted and, at each volume, for all 65536 samples), and a sample
\* 0 at volume 100 becomes 0x800
C16_ConversionRange ==
    /\ g_media.volume_percent \in 0..100
    /\ pc = "mra_converted" =>
        /\ loc.left \in 0..4095
        /\ loc.right \in 0..4095
        /\ (loc.l_raw = 0 /\ g_media.volume_percent = 100) => loc.left = 2048
        /\ (loc.l_raw = 0 /\ loc.r_raw = 0) =>
              \A s \in (0 - 32768)..32767 :
                  Media_ConvertSample(s, g_media.volume_percent) \in 0..4095

\* the two ends of the range at full volume
C16_Witness ==
    /\ pc = "mra_converted"
    /\ g_media.volume_percent = 100
    /\ loc.l_raw = 32767 /\ loc.left = 4095
    /\ loc.r_raw = 0 - 32768 /\ loc.right = 0

-----------------------------------------------------------------------------
(* Properties of Media_ReadAt (SpecReadAt)                                    *)

\* ceil(a / b)
CeilDiv(a, b) == (a + b - 1) \div b

\* Media_ReadAt was entered on the contiguous path for whole blocks at a
\* block-aligned offset, all inside the file, and no block read fails
AlignedBlocksRead ==
    /\ g_media.is_open /\ g_media.is_contiguous /\ g_media.first_sector # 0
    /\ loc.ra_offset0 % SD_BLOCK_SIZE = 0
    /\ loc.ra_size0 % SD_BLOCK_SIZE = 0
    /\ loc.ra_size0 > 0
    /\ loc.ra_offset0 + loc.ra_size0 <= g_media.file_size
    /\ loc.io.fail_at = 0

\* C21: on the contiguous path a read of k whole 512-byte blocks at a
\* block-aligned offset inside the file returns after exactly ceil(k/16) block
\* device calls, the i-th for min(16, k - 16(i-1)) blocks from sector
\* first_sector + offset/512 + 16(i-1), and the buffer holds the k blocks of
\* the card from first_sector + offset/512 on, in order
C21_MultiblockSplit ==
    (pc = "ra_return" /\ AlignedBlocksRead) =>
        LET k == loc.ra_size0 \div SD_BLOCK_SIZE
            s == g_media.first_sector + loc.ra_offset0 \div SD_BLOCK_SIZE
        IN  /\ loc.media_status = "FAT_OK"
            /\ Len(loc.io.log) = CeilDiv(k, MAX_MULTIBLOCK_COUNT)
            /\ \A i \in 1..Len(loc.io.log) :
                   /\ loc.io.log[i][1] = s + MAX_MULTIBLOCK_COUNT * (i - 1)
                   /\ loc.io.log[i][2] =
                          Min(MAX_MULTIBLOCK_COUNT, k - MAX_MULTIBLOCK_COUNT * (i - 1))
            /\ loc.ra_buf = <<<<s * SD_BLOCK_SIZE, k * SD_BLOCK_SIZE>>>>
            /\ loc.ra_buf = FileBytes(loc.g_volume, loc.ra_offset0,
                                      loc.ra_size0, <<>>)

\* 40 aligned blocks were read in calls of 16, 16 and 8 blocks
C21_Witness ==
    /\ pc = "ra_return" /\ AlignedBlocksRead
    /\ loc.ra_size0 = 40 * SD_BLOCK_SIZE
    /\ loc.ra_offset0 = SD_BLOCK_SIZE
    /\ Len(loc.io.log) = 3
    /\ loc.io.log[1][2] = 16 /\ loc.io.log[2][2] = 16 /\ loc.io.log[3][2] = 8

\* a pass of a read loop at one of the labels returns or moves the offset
\* forward and takes from the remaining length; entered with
\* offset >= file_size it returns without a block read
PassTerminates(labels) ==
    pc \in labels =>
        /\ \/ pc' = "ra_return"
           \/ /\ loc'.ra_offset > loc.ra_offset
              /\ loc'.ra_size < loc.ra_size
        /\ loc.ra_offset >= g_media.file_size =>
               /\ pc' = "ra_return"
               /\ loc'.io = loc.io

\* C28: every pass of the loop of Media_ReadAtContiguous and of
\* Media_ReadAtFragmented either returns or moves the offset forward and takes
\* from the remaining length, and a pass entered with offset >= file_size
\* returns without a block read
C28_ReadTerminates ==
    [][PassTerminates({"ra_contiguous", "ra_fragmented"})]_vars

\* the part of C28 that holds: the loop of Media_ReadAtFragmented
C28_FragmentedTerminates == [][PassTerminates({"ra_fragmented"})]_vars


-----------------------------------------------------------------------------
(* Properties of Media_CheckContiguous (SpecWalk)                             *)

\* C29: on a table of any content the walk of Media_CheckContiguous makes at
\* most ceil(file_size / cluster_size) + 11 FAT lookups: while it is in the
\* loop it has made fewer, and it has left the loop at the end of the chain,
\* at a link that is not consecutive, or with count > ceil(..) + 10
C29_WalkBounded ==
    pc \in {"cc_loop", "cc_return"} =>
        LET bound == CeilDiv(g_media.file_size, FAT_GetClusterSize(g_media.vol)) + 11
        IN  /\ loc.io.n <= bound
            /\ loc.count <= bound
            /\ loc.count < MaxWalkPasses
            /\ pc = "cc_loop" => loc.io.n < bound
            /\ pc = "cc_return" =>
                   \/ FAT_IsEndOfChain(loc.cluster) /\ g_media.is_contiguous
                   \/ /\ loc.count > 1 /\ loc.cluster # loc.prev + 1
                      /\ ~g_media.is_contiguous
                   \/ loc.count > bound - 11 + 10 /\ g_media.is_contiguous

\* the walk was stopped by the safety limit on a chain that goes on, after
\* ceil(file_size / cluster_size) + 11 lookups
C29_Witness ==
    /\ pc = "cc_return"
    /\ ~FAT_IsEndOfChain(loc.cluster)
    /\ loc.cluster = loc.prev + 1
    /\ loc.io.n = CeilDiv(g_media.file_size, FAT_GetClusterSize(g_media.vol)) + 11

\* the walk ended at a link back to the first cluster of the file
C29_WitnessCycle ==
    /\ pc = "cc_return"
    /\ loc.count > 1
    /\ loc.cluster = MediaFirstCluster
    /\ ~g_media.is_contiguous

-----------------------------------------------------------------------------
(* Properties of FAT_ConvertFilename (SpecFilename)                           *)

\* the first n characters of s, or all of them
Take(s, n) == SubSeq(s, 1, Min(n, Len(s)))

\* s in upper case, padded with spaces to n characters
UpperPadded(s, n) ==
    [k \in 1..n |-> IF k <= Len(s) THEN ToUpper(s[k]) ELSE " "]

\* the characters of s before its first dot, and those after it
BeforeDot(s) ==
    IF \E k \in 1..Len(s) : s[k] = "."
    THEN SubSeq(s, 1, (CHOOSE k \in 1..Len(s) :
                          s[k] = "." /\ \A j \in 1..(k - 1) : s[j] # ".") - 1)
    ELSE s

AfterDot(s) ==
    IF \E k \in 1..Len(s) : s[k] = "."
    THEN SubSeq(s, Len(BeforeDot(s)) + 2, Len(s))
    ELSE <<>>

\* the 8.3 form of a name: 11 bytes and no dot between name and extension
Rendering83(s) ==
    UpperPadded(Take(BeforeDot(s), 8), 8) \o UpperPadded(Take(AfterDot(s), 3), 3)

\* FAT_ConvertFilename has returned: it wrote bytes 0..10 of the output and no
\* other, and they are the 8.3 form of the input
ElevenBytes ==
    pc = "cf_return" =>
        /\ SubSeq(loc.output, FAT_MAX_FILENAME + 1, Len(loc.output)) = OutputGuard
        /\ SubSeq(loc.output, 1, FAT_MAX_FILENAME) = Rendering83(loc.input)

\* C25: FAT_ConvertFilename writes exactly the 11 bytes of the 8.3 form of its
\* input, and converting the 11 bytes it produced gives the same 11 bytes
C25_ConvertFilename ==
    /\ ElevenBytes
    /\ (pc = "cf_return" /\ loc.conversions = 2) =>
           loc.output = loc.first_output

\* the part of C25 that holds: the 11 bytes, for every name
C25_ElevenBytes == ElevenBytes /\ (pc = "cf_return" => loc.conversions \in {1, 2})

\* the names for which the second conversion does give the same bytes have
\* nothing after the eighth byte of the first: no extension
C25_IdempotentWithoutExtension ==
    (pc = "cf_return" /\ loc.conversions = 2) =>
        (loc.output = loc.first_output
            <=> SubSeq(loc.first_output, 9, FAT_MAX_FILENAME) = <<" ", " ", " ">>)

-----------------------------------------------------------------------------
(* Properties of FAT_Mount (SpecMount)                                        *)

\* what FAT_Mount requires of the card
CardIsValid ==
    /\ loc.card.mbr_signature = BootSignature
    /\ loc.card.boot.signature = BootSignature
    /\ loc.card.boot.bytes_per_sector = SD_BLOCK_SIZE
    /\ loc.card.boot.sectors_per_cluster # 0
    /\ loc.card.boot.num_fats # 0

\* FAT_Mount has been called, and FAT_FindFile or Media_Open after it or not
AfterMount == hist.media_call \in {"FAT_Mount", "FAT_FindFile", "Media_Open"}

\* a FAT_Mount that returns FAT_OK has found both signatures and a valid
\* parameter block and leaves the volume mounted
MountedOnlyIfValid ==
    (AfterMount /\ loc.mount_status = "FAT_OK") =>
        CardIsValid /\ loc.hsd_initialized /\ loc.g_volume.mounted

\* after a failed FAT_Mount on a volume that is not mounted, FAT_FindFile and
\* Media_Open return FAT_ERROR_INVALID_PARAM
UnmountedIsRejected ==
    (hist.media_call \in {"FAT_FindFile", "Media_Open"} /\ ~loc.g_volume.mounted)
        => loc.media_status = "FAT_ERROR_INVALID_PARAM"

\* C26: FAT_Mount returns FAT_OK and leaves mounted = true only for a card with
\* both signatures, 512 bytes per sector, sectors_per_cluster # 0 and
\* num_fats # 0.  A FAT_Mount that fails after its parameter check, on a read
\* or on the validation, returns a status other than FAT_OK with
\* mounted = false; one that fails on its parameter check returns
\* FAT_ERROR_INVALID_PARAM and leaves the volume as it was, not mounted if it
\* was not mounted before.  On a volume that is not mounted FAT_FindFile and
\* Media_Open return FAT_ERROR_INVALID_PARAM
C26_MountValidates ==
    /\ MountedOnlyIfValid
    /\ (AfterMount /\ loc.mount_status # "FAT_OK") =>
           IF loc.mount_status = "FAT_ERROR_INVALID_PARAM"
           THEN ~loc.hsd_initialized /\ loc.g_volume.mounted = loc.mounted_before
           ELSE ~loc.g_volume.mounted
    /\ (AfterMount /\ loc.g_volume.mounted /\ ~loc.mounted_before) =>
           loc.mount_status = "FAT_OK"
    /\ UnmountedIsRejected

\* C26 as stated: after every FAT_Mount that does not return FAT_OK the volume
\* is not mounted, and FAT_FindFile and Media_Open return
\* FAT_ERROR_INVALID_PARAM
C26_EveryFailureUnmounts ==
    /\ MountedOnlyIfValid
    /\ (AfterMount /\ loc.mount_status # "FAT_OK") =>
           /\ ~loc.g_volume.mounted
           /\ hist.media_call \in {"FAT_FindFile", "Media_Open"} =>
                  loc.media_status = "FAT_ERROR_INVALID_PARAM"

\* FAT_Mount failed on the validation of a boot sector with both signatures,
\* and Media_Open was refused on the volume
C26_Witness ==
    /\ hist.media_call = "Media_Open"
    /\ loc.mount_status = "FAT_ERROR"
    /\ loc.card.mbr_signature = BootSignature
    /\ loc.card.boot.signature = BootSignature
    /\ loc.card.boot.sectors_per_cluster = 0
    /\ ~loc.g_volume.mounted
    /\ loc.media_status = "FAT_ERROR_INVALID_PARAM"

-----------------------------------------------------------------------------
(* Properties of the SD block reads (SpecSd)                                  *)

\* C22: SD_ReadBlock and SD_ReadMultipleBlocks return with dma_busy false on
\* every path; they return SD_OK only when, for each of the blocks asked for,
\* SD_DMA_RxComplete has cleared dma_busy, no transfer is in flight and
\* dma_error is false; and a call in which a transfer failed, timed out or
\* could not be started does not return SD_OK
C22_ReadsSynchronous ==
    /\ pc \in {"sd_return", "idle"} =>
           ~loc.g_sd.dma_busy /\ ~loc.spi_dma_active
    /\ (pc = "sd_return" /\ loc.sd_status = "SD_OK") =>
           /\ loc.sd_count > 0
           /\ loc.sd_i = loc.sd_count
           /\ loc.completions = loc.sd_count
           /\ ~loc.g_sd.dma_error
    /\ (pc = "sd_return"
           /\ loc.dma_errors + loc.dma_timeouts + loc.dma_start_failures > 0) =>
           loc.sd_status \in {"SD_ERROR", "SD_ERROR_TIMEOUT"}

\* SD_ReadMultipleBlocks has returned SD_OK for the most blocks, each of
\* them completed by SD_DMA_RxComplete
C22_Witness ==
    /\ pc = "sd_return"
    /\ loc.sd_status = "SD_OK"
    /\ loc.sd_call = "SD_ReadMultipleBlocks"
    /\ loc.sd_count = MaxBlockCount
    /\ loc.completions = MaxBlockCount

\* a call has returned after a transfer that failed in its second block
C22_WitnessError ==
    /\ pc = "sd_return"
    /\ loc.dma_errors = 1
    /\ loc.completions = 1
    /\ loc.sd_status = "SD_ERROR"
====
